---- MODULE Spec2Model ----
(***************************************************************************)
(* State-machine model of the cyd-80 peripheral layer: the virtual         *)
(* hardware control port, the MMU port and the port tables (simio.c), the  *)
(* disk registry, the file loader and the sector I/O routines for the FDC  *)
(* (disks.c) and the configuration dialog's commands (simcfg.c).           *)
(***************************************************************************)
EXTENDS Integers, Sequences, FiniteSets, TLC

(***************************************************************************)
(* Program constants                                                       *)
(***************************************************************************)
LOCKED == 255           \* simio.c:54  hwctl_lock = 0xff
UNLOCKED == 0           \* simio.c:223 hwctl_lock = 0
MAGIC == 170            \* simio.c:218 0xaa
BOOT_PC == 65280        \* simio.c:240 0xff00
NUMDISK == 4            \* disks.h:23
MAX_DRIVE == 3          \* disks.c:221 (drive > 3)
DMA_MAX == 65407        \* disks.c:231 0xff7f
ADDR_SPACE == 65536     \* WORD is 16 bits wide: 64 KiB of addresses
SEC_SZ == 128           \* sd-fdc.h, included at disks.c:33
JP_OPCODE == 195        \* cydsim.c:274 0xc3
SPT == 26               \* sd-fdc.h, included at disks.c:33
TRK == 77               \* sd-fdc.h, included at disks.c:33
NUMSEG == 2             \* simmem.h, included at simio.c:32
CPU_SPEED == 4          \* sim.h, included at cydsim.c:33
MMU_PORT == 64          \* simio.c:64, simio.c:80
HWCTL_PORT == 160       \* simio.c:67, simio.c:83

ST_STOPPED == "ST_STOPPED"
ST_CONTIN_RUN == "ST_CONTIN_RUN"
NONE == "NONE"
IOHALT == "IOHALT"
IOERROR == "IOERROR"
USERINT == "USERINT"
Z80 == "Z80"
I8080 == "I8080"

FDC_STAT_OK == "FDC_STAT_OK"
FDC_STAT_DISK == "FDC_STAT_DISK"
FDC_STAT_NODISK == "FDC_STAT_NODISK"
FDC_STAT_SEEK == "FDC_STAT_SEEK"
FDC_STAT_READ == "FDC_STAT_READ"
FDC_STAT_WRITE == "FDC_STAT_WRITE"
FDC_STAT_DMAADR == "FDC_STAT_DMAADR"
FDC_STAT_TRACK == "FDC_STAT_TRACK"
FDC_STAT_SEC == "FDC_STAT_SEC"

(***************************************************************************)
(* Bounds of the model                                                     *)
(***************************************************************************)
MaxOps == 1             \* sector requests per run in SpecDisk
MaxXfer == 3            \* sector requests per run in SpecXfer
MaxFileOps == 2          \* sector requests per run in SpecFile
MaxChars == 6           \* characters typed per call of get_cmdline

BYTE == 0..255
PCs == {0, 256, BOOT_PC}     \* program counter values the CPU engine visits

VARIABLES
    phase,       \* "config": configuration dialog, "run": CPU running
    ev,          \* the operation the last step performed
    hwctl_lock,  \* simio.c:54
    hw_pc,       \* position inside hwctl_out: "idle" or "cmd" (after line 229)
    hw_data,     \* the byte given to the running / last hwctl_out call
    hw_armed,    \* history: an unlock has been consumed and no command since
    hw_unl,      \* history: CPU state before the unlocking write, while the
                 \* next port write has not been followed by anything else
    hw_calls,    \* external routines the last hwctl_out call invoked
    cpu_state, cpu_error, PC, cpu,
    disks,       \* disks.c:40
    exists,      \* image files present on the SD card
    img,         \* image file contents: path -> [len, data]
    mem,         \* emulated memory, the bytes written so far
    dsk_buf,     \* disks.c:47
    nopen,       \* number of open file handles (sd_file)
    req,         \* the last sector request and what it did
    wlog,        \* history: what the last complete write_sec put into each
                 \* sector, by image path, track and sector
    nops,        \* sector requests made so far
    sd_calls,    \* the open() and close() calls the last file routine made
    mnt,         \* the arguments of the last mount_disk call
    selbnk,      \* the selected memory bank (simio.c:199)
    curbnk,      \* the bank curbnk points to (simio.c:201)
    fp_value,    \* simio.c:53
    io_data,     \* the byte given to the last output handler but hwctl_out
    io_ret,      \* the byte the last input handler returned
    uart_pc,     \* position of uart_event_task: "wait", or "stop" between
                 \* its two writes (cydsim.c:79 and 80)
    ice,         \* the clock measurement command: position, save[], save_PC,
                 \* the alarm timer, and history of the state at its start
    cl,          \* the running / last get_cmdline call: len, i, buf
    speed,       \* cydsim.c:63
    cfg_file,    \* the configuration file on the card, a sequence of chunks
    cfg_rec,     \* history: the values the last write of the file took
    load_rep     \* what the last load_file call reported

hwvars == <<hwctl_lock, hw_pc, hw_data, hw_armed, hw_unl, hw_calls>>
cpuvars == <<cpu_state, cpu_error, PC, cpu>>
diskvars == <<disks, exists, img, mem, dsk_buf, nopen, req, wlog, nops,
              sd_calls, mnt>>
iovars == <<selbnk, curbnk, fp_value, io_data, io_ret>>
auxvars == <<uart_pc, ice, cl, speed, cfg_file, cfg_rec, load_rep>>
vars == <<phase, ev, hwvars, cpuvars, diskvars, iovars, auxvars>>

BitSet(data, b) == (data \div (2 ^ b)) % 2 = 1

NoSnap == [valid |-> FALSE, cpu_state |-> ST_STOPPED, cpu_error |-> NONE,
           PC |-> 0, cpu |-> Z80]
Snap == [valid |-> TRUE, cpu_state |-> cpu_state, cpu_error |-> cpu_error,
         PC |-> PC, cpu |-> cpu]

(***************************************************************************)
(* The CPU engine (external): run_cpu() executes instructions, so that PC  *)
(* moves and the CPU is running without an error.                          *)
(***************************************************************************)
run_cpu ==
    /\ phase = "run"
    /\ hw_pc = "idle"
    /\ ev' = "run_cpu"
    /\ UNCHANGED auxvars
    /\ UNCHANGED iovars
    /\ cpu_state' = ST_CONTIN_RUN
    /\ cpu_error' = NONE
    /\ \E p \in PCs : PC' = p
    /\ hw_unl' = NoSnap
    /\ UNCHANGED <<phase, hwctl_lock, hw_pc, hw_data, hw_armed, hw_calls, cpu>>
    /\ UNCHANGED diskvars

(***************************************************************************)
(* hwctl_out, simio.c:215-229: the lock protocol.  A byte to the locked    *)
(* port is ignored unless it is 0xaa, which unlocks; a byte to the         *)
(* unlocked port locks the port again and is then decoded (hwctl_cmd).     *)
(***************************************************************************)
\* Faulty variants of hwctl_out: one that does not lock the port again, one
\* that lets any byte unlock the port
hwctl_out_norelock(data) ==
    /\ phase = "run"
    /\ hw_pc = "idle"
    /\ ev' = "hwctl_out"
    /\ UNCHANGED auxvars
    /\ UNCHANGED iovars
    /\ hw_data' = data
    /\ hw_calls' = <<>>
    /\ IF hwctl_lock # 0 /\ data # MAGIC
       THEN /\ hw_unl' = NoSnap
            /\ UNCHANGED <<hwctl_lock, hw_pc, hw_armed>>
       ELSE IF hwctl_lock # 0 /\ data = MAGIC
       THEN /\ hwctl_lock' = UNLOCKED
            /\ hw_armed' = TRUE
            /\ hw_unl' = Snap
            /\ UNCHANGED hw_pc
       ELSE /\ hw_pc' = "cmd"
            /\ UNCHANGED <<hwctl_lock, hw_armed, hw_unl>>
    /\ UNCHANGED <<phase, cpuvars, diskvars>>

hwctl_out_unlock_any(data) ==
    /\ phase = "run"
    /\ hw_pc = "idle"
    /\ ev' = "hwctl_out"
    /\ UNCHANGED auxvars
    /\ UNCHANGED iovars
    /\ hw_data' = data
    /\ hw_calls' = <<>>
    /\ IF hwctl_lock # 0
       THEN /\ hwctl_lock' = UNLOCKED
            /\ hw_armed' = TRUE
            /\ hw_unl' = Snap
            /\ UNCHANGED hw_pc
       ELSE /\ hwctl_lock' = LOCKED
            /\ hw_pc' = "cmd"
            /\ UNCHANGED <<hw_armed, hw_unl>>
    /\ UNCHANGED <<phase, cpuvars, diskvars>>

hwctl_out(data) ==
    /\ phase = "run"
    /\ hw_pc = "idle"
    /\ ev' = "hwctl_out"
    /\ UNCHANGED auxvars
    /\ UNCHANGED iovars
    /\ hw_data' = data
    /\ hw_calls' = <<>>
    /\ IF hwctl_lock # 0 /\ data # MAGIC
       THEN /\ hw_unl' = NoSnap
            /\ UNCHANGED <<hwctl_lock, hw_pc, hw_armed>>
       ELSE IF hwctl_lock # 0 /\ data = MAGIC
       THEN /\ hwctl_lock' = UNLOCKED
            /\ hw_armed' = TRUE
            /\ hw_unl' = Snap
            /\ UNCHANGED hw_pc
       ELSE /\ hwctl_lock' = LOCKED
            /\ hw_pc' = "cmd"
            /\ UNCHANGED <<hw_armed, hw_unl>>
    /\ UNCHANGED <<phase, cpuvars, diskvars>>

(***************************************************************************)
(* hwctl_out, simio.c:231-254: decode of the command byte, most            *)
(* significant bit first.  reset_cpu, reset_memory and switch_cpu are      *)
(* external; the calls are logged and switch_cpu sets the CPU model.       *)
(***************************************************************************)
\* Faulty variants of the decode: least significant bit first, and 0xaa
\* taken as no command
hwctl_cmd_lsb_first ==
    /\ hw_pc = "cmd"
    /\ ev' = "hwctl_cmd"
    /\ UNCHANGED auxvars
    /\ UNCHANGED iovars
    /\ hw_pc' = "idle"
    /\ hw_armed' = FALSE
    /\ IF BitSet(hw_data, 4)
       THEN /\ cpu' = I8080
            /\ hw_calls' = <<"switch_cpu">>
            /\ UNCHANGED <<cpu_state, cpu_error, PC>>
       ELSE IF BitSet(hw_data, 5)
       THEN /\ cpu' = Z80
            /\ hw_calls' = <<"switch_cpu">>
            /\ UNCHANGED <<cpu_state, cpu_error, PC>>
       ELSE IF BitSet(hw_data, 6)
       THEN /\ hw_calls' = <<"reset_cpu", "reset_memory">>
            /\ PC' = BOOT_PC
            /\ UNCHANGED <<cpu_state, cpu_error, cpu>>
       ELSE IF BitSet(hw_data, 7)
       THEN /\ cpu_error' = IOHALT
            /\ cpu_state' = ST_STOPPED
            /\ UNCHANGED <<PC, cpu, hw_calls>>
       ELSE UNCHANGED <<cpuvars, hw_calls>>
    /\ UNCHANGED <<phase, hwctl_lock, hw_data, hw_unl, diskvars>>

hwctl_cmd_magic_noop ==
    /\ hw_pc = "cmd"
    /\ ev' = "hwctl_cmd"
    /\ UNCHANGED auxvars
    /\ UNCHANGED iovars
    /\ hw_pc' = "idle"
    /\ hw_armed' = FALSE
    /\ IF hw_data = MAGIC
       THEN UNCHANGED <<cpuvars, hw_calls>>
       ELSE IF BitSet(hw_data, 7)
       THEN /\ cpu_error' = IOHALT
            /\ cpu_state' = ST_STOPPED
            /\ UNCHANGED <<PC, cpu, hw_calls>>
       ELSE IF BitSet(hw_data, 6)
       THEN /\ hw_calls' = <<"reset_cpu", "reset_memory">>
            /\ PC' = BOOT_PC
            /\ UNCHANGED <<cpu_state, cpu_error, cpu>>
       ELSE IF BitSet(hw_data, 5)
       THEN /\ cpu' = Z80
            /\ hw_calls' = <<"switch_cpu">>
            /\ UNCHANGED <<cpu_state, cpu_error, PC>>
       ELSE IF BitSet(hw_data, 4)
       THEN /\ cpu' = I8080
            /\ hw_calls' = <<"switch_cpu">>
            /\ UNCHANGED <<cpu_state, cpu_error, PC>>
       ELSE UNCHANGED <<cpuvars, hw_calls>>
    /\ UNCHANGED <<phase, hwctl_lock, hw_data, hw_unl, diskvars>>

hwctl_cmd ==
    /\ hw_pc = "cmd"
    /\ ev' = "hwctl_cmd"
    /\ UNCHANGED auxvars
    /\ UNCHANGED iovars
    /\ hw_pc' = "idle"
    /\ hw_armed' = FALSE
    /\ IF BitSet(hw_data, 7)
       THEN /\ cpu_error' = IOHALT
            /\ cpu_state' = ST_STOPPED
            /\ UNCHANGED <<PC, cpu, hw_calls>>
       ELSE IF BitSet(hw_data, 6)
       THEN /\ hw_calls' = <<"reset_cpu", "reset_memory">>
            /\ PC' = BOOT_PC
            /\ UNCHANGED <<cpu_state, cpu_error, cpu>>
       ELSE IF BitSet(hw_data, 5)
       THEN /\ cpu' = Z80
            /\ hw_calls' = <<"switch_cpu">>
            /\ UNCHANGED <<cpu_state, cpu_error, PC>>
       ELSE IF BitSet(hw_data, 4)
       THEN /\ cpu' = I8080
            /\ hw_calls' = <<"switch_cpu">>
            /\ UNCHANGED <<cpu_state, cpu_error, PC>>
       ELSE UNCHANGED <<cpuvars, hw_calls>>
    /\ UNCHANGED <<phase, hwctl_lock, hw_data, hw_unl, diskvars>>

(***************************************************************************)
(* config, simcfg.c:126-131: command 'c' switches the CPU model            *)
(***************************************************************************)
config_switch_cpu ==
    /\ phase = "config"
    /\ ev' = "config_switch_cpu"
    /\ UNCHANGED auxvars
    /\ UNCHANGED iovars
    /\ cpu' = IF cpu = Z80 THEN I8080 ELSE Z80
    /\ UNCHANGED <<phase, hwvars, cpu_state, cpu_error, PC, diskvars>>

(***************************************************************************)
(* config, simcfg.c:194-215: command 'g' ends the dialog, the              *)
(* configuration file is written and the machine runs.  The file is        *)
(* created when it is missing, so that its open() succeeds.                *)
(***************************************************************************)
CFG == "/sdcard/CONF80/CYD80.DAT"

(***************************************************************************)
(* The configuration file, simcfg.c:86-98 and 203-215.  It is a dump of    *)
(* the variables cpu, speed, fp_value and disks[0..3]; a field is a run of *)
(* bytes at an offset of the file.  A read gets a value back when it       *)
(* covers the bytes of one written field exactly, and garbage otherwise.   *)
(***************************************************************************)
INT_SZ == 4      \* sizeof(cpu), sizeof(speed): an int of the ESP32
BYTE_SZ == 1     \* sizeof(fp_value), simio.c:53
DISKLEN == 29    \* disks.h:24

\* the widths of the write() calls, simcfg.c:205-211
CfgWriteWidths ==
    <<INT_SZ, INT_SZ, BYTE_SZ, DISKLEN, DISKLEN, DISKLEN, DISKLEN>>

\* Faulty variant of CfgReadWidths: fp_value is read as an int
CfgReadWidths_fp_int ==
    <<INT_SZ, INT_SZ, INT_SZ, DISKLEN, DISKLEN, DISKLEN, DISKLEN>>

\* the widths of the read() calls, simcfg.c:89-95
CfgReadWidths ==
    <<INT_SZ, INT_SZ, BYTE_SZ, DISKLEN, DISKLEN, DISKLEN, DISKLEN>>

RECURSIVE FieldOff(_, _)
FieldOff(ws, k) == IF k <= 1 THEN 0 ELSE FieldOff(ws, k - 1) + ws[k - 1]

\* the variables in the order of the calls, the same at both places
CfgValues(c, s, f, d) == <<c, s, f, d[0], d[1], d[2], d[3]>>

CfgWrite(c, s, f, d) ==
    [k \in 1..Len(CfgWriteWidths) |->
        [off |-> FieldOff(CfgWriteWidths, k), w |-> CfgWriteWidths[k],
         v |-> CfgValues(c, s, f, d)[k]]]

GarbageInt == -99
GarbageStr == "?"

CfgRead(file, k, garbage) ==
    LET off == FieldOff(CfgReadWidths, k)
        hit == {i \in DOMAIN file :
                   file[i].off = off /\ file[i].w = CfgReadWidths[k]}
    IN IF hit = {} THEN garbage ELSE file[CHOOSE i \in hit : TRUE].v

config_go ==
    /\ phase = "config"
    /\ phase' = "run"
    /\ ev' = "config_go"
    /\ cfg_file' = CfgWrite(cpu, speed, fp_value, disks)
    /\ cfg_rec' = [cpu |-> cpu, speed |-> speed, fp_value |-> fp_value,
                   disks |-> disks]
    /\ UNCHANGED <<uart_pc, ice, cl, speed, load_rep>>
    /\ UNCHANGED iovars
    /\ sd_calls' = <<[call |-> "open", path |-> CFG, ok |-> TRUE],
                     [call |-> "close", path |-> CFG, ok |-> TRUE]>>
    /\ mnt' = [drive |-> -1, name |-> "", again |-> FALSE]
    /\ UNCHANGED <<hwvars, cpuvars>>
    /\ UNCHANGED <<disks, exists, img, mem, dsk_buf, nopen, req, wlog, nops>>

(***************************************************************************)
(* config, simcfg.c:133-138: command 's'.  i is what get_int returns, -1   *)
(* for an empty line and a number in 0..40 otherwise.                      *)
(***************************************************************************)
config_speed(i) ==
    /\ phase = "config"
    /\ ev' = "config_speed"
    /\ speed' = IF i >= 0 THEN i ELSE speed
    /\ UNCHANGED <<uart_pc, ice, cl, cfg_file, cfg_rec, load_rep>>
    /\ UNCHANGED <<phase, hwvars, cpuvars, diskvars, iovars>>

(***************************************************************************)
(* config, simcfg.c:140-158: command 'p'.  s is the line typed, at most    *)
(* two characters; an empty line changes nothing and a line that is not    *)
(* two hex digits is asked for again.                                      *)
(***************************************************************************)
xdigit(ch) ==
    CASE ch = "0" -> 0 [] ch = "5" -> 5 [] ch = "9" -> 9
      [] ch = "a" -> 10 [] ch = "A" -> 10 [] ch = "F" -> 15
      [] OTHER -> -1

config_fp(s) ==
    /\ phase = "config"
    /\ ev' = "config_fp"
    /\ fp_value' = IF Len(s) = 2 /\ xdigit(s[1]) >= 0 /\ xdigit(s[2]) >= 0
                   THEN (xdigit(s[1]) * 16 + xdigit(s[2])) % 256
                   ELSE fp_value
    /\ UNCHANGED <<selbnk, curbnk, io_data, io_ret>>
    /\ UNCHANGED auxvars
    /\ UNCHANGED <<phase, hwvars, cpuvars, diskvars>>

(***************************************************************************)
(* The memory management unit, simio.c:137-145 and 190-202.  A bank is     *)
(* named by its number 1..NUMSEG; curbnk is 0 before the first switch.     *)
(* bnks[i] for an index outside the array is a read out of bounds: it can  *)
(* yield the address of any bank or of none (WildBank).                    *)
(***************************************************************************)
WildBank == NUMSEG + 1

BnksRead(i) ==
    IF i \in 0..(NUMSEG - 1) THEN {i + 1} ELSE 1..WildBank

RECURSIVE BitOr(_, _)
BitOr(a, b) ==
    IF a = 0 THEN b
    ELSE IF b = 0 THEN a
    ELSE (IF a % 2 = 1 \/ b % 2 = 1 THEN 1 ELSE 0)
         + 2 * BitOr(a \div 2, b \div 2)

mmu_in ==
    /\ phase = "run"
    /\ hw_pc = "idle"
    /\ ev' = "mmu_in"
    /\ UNCHANGED auxvars
    /\ io_ret' = BitOr(NUMSEG * 16, selbnk) % 256
    /\ UNCHANGED <<selbnk, curbnk, fp_value, io_data>>
    /\ UNCHANGED <<phase, hwvars, cpuvars, diskvars>>

mmu_out(data) ==
    /\ phase = "run"
    /\ hw_pc = "idle"
    /\ ev' = "mmu_out"
    /\ UNCHANGED auxvars
    /\ io_data' = data
    /\ IF selbnk > NUMSEG
       THEN /\ cpu_error' = IOERROR
            /\ cpu_state' = ST_STOPPED
            /\ UNCHANGED <<selbnk, curbnk>>
       ELSE /\ selbnk' = data
            /\ IF data # 0
               THEN curbnk' \in BnksRead(data - 1)
               ELSE curbnk' = curbnk
            /\ UNCHANGED <<cpu_state, cpu_error>>
    /\ UNCHANGED <<fp_value, io_ret, PC, cpu>>
    /\ UNCHANGED <<phase, hwvars, diskvars>>

(***************************************************************************)
(* The other handlers of simio.c: hwctl_in (151-154), fpsw_in (160-163),   *)
(* fpsw_out (260-263), and those without state of their own in this model: *)
(* the console, the LED, the front panel lights, and the FDC and clock     *)
(* handlers defined outside simio.c.                                       *)
(***************************************************************************)
hwctl_in ==
    /\ phase = "run"
    /\ hw_pc = "idle"
    /\ ev' = "hwctl_in"
    /\ UNCHANGED auxvars
    /\ io_ret' = hwctl_lock
    /\ UNCHANGED <<selbnk, curbnk, fp_value, io_data>>
    /\ UNCHANGED <<phase, hwvars, cpuvars, diskvars>>

fpsw_in ==
    /\ phase = "run"
    /\ hw_pc = "idle"
    /\ ev' = "fpsw_in"
    /\ UNCHANGED auxvars
    /\ io_ret' = fp_value
    /\ UNCHANGED <<selbnk, curbnk, fp_value, io_data>>
    /\ UNCHANGED <<phase, hwvars, cpuvars, diskvars>>

fpsw_out(data) ==
    /\ phase = "run"
    /\ hw_pc = "idle"
    /\ ev' = "fpsw_out"
    /\ UNCHANGED auxvars
    /\ io_data' = data
    /\ fp_value' = data
    /\ UNCHANGED <<selbnk, curbnk, io_ret>>
    /\ UNCHANGED <<phase, hwvars, cpuvars, diskvars>>

DevIns == {"sios_in", "siod_in", "fdc_in", "clkc_in", "clkd_in"}
DevOuts == {"led_out", "siod_out", "fdc_out", "clkc_out", "clkd_out",
            "fpled_out"}

\* what a device reports: sios_in (110-121) has bit 0 set or clear
DevVals(h) == IF h = "sios_in" THEN {0, 1} ELSE {0, 255}

dev_in(h) ==
    /\ phase = "run"
    /\ hw_pc = "idle"
    /\ ev' = h
    /\ UNCHANGED auxvars
    /\ io_ret' \in DevVals(h)
    /\ UNCHANGED <<selbnk, curbnk, fp_value, io_data>>
    /\ UNCHANGED <<phase, hwvars, cpuvars, diskvars>>

dev_out(h, data) ==
    /\ phase = "run"
    /\ hw_pc = "idle"
    /\ ev' = h
    /\ UNCHANGED auxvars
    /\ io_data' = data
    /\ UNCHANGED <<selbnk, curbnk, fp_value, io_ret>>
    /\ UNCHANGED <<phase, hwvars, cpuvars, diskvars>>

(***************************************************************************)
(* The port tables, simio.c:60-70 and 76-86.  An entry without an          *)
(* initializer is a null pointer.                                          *)
(***************************************************************************)
NULL == "NULL"

port_in ==
    [p \in 0..255 |->
        IF p = 0 THEN "sios_in"
        ELSE IF p = 1 THEN "siod_in"
        ELSE IF p = 4 THEN "fdc_in"
        ELSE IF p = MMU_PORT THEN "mmu_in"
        ELSE IF p = 65 THEN "clkc_in"
        ELSE IF p = 66 THEN "clkd_in"
        ELSE IF p = HWCTL_PORT THEN "hwctl_in"
        ELSE IF p = 254 THEN "fpsw_in"
        ELSE IF p = 255 THEN "fpsw_in"
        ELSE NULL]

port_out ==
    [p \in 0..255 |->
        IF p = 0 THEN "led_out"
        ELSE IF p = 1 THEN "siod_out"
        ELSE IF p = 4 THEN "fdc_out"
        ELSE IF p = MMU_PORT THEN "mmu_out"
        ELSE IF p = 65 THEN "clkc_out"
        ELSE IF p = 66 THEN "clkd_out"
        ELSE IF p = HWCTL_PORT THEN "hwctl_out"
        ELSE IF p = 254 THEN "fpsw_out"
        ELSE IF p = 255 THEN "fpled_out"
        ELSE NULL]

(***************************************************************************)
(* io_in and io_out of the CPU engine (external, simio.c:12): the handler  *)
(* the table holds for the port is called.  For a null entry there is no   *)
(* handler to call: nothing of the peripheral state changes.               *)
(***************************************************************************)
no_handler_in ==
    /\ phase = "run"
    /\ hw_pc = "idle"
    /\ ev' = "no_handler_in"
    /\ UNCHANGED auxvars
    /\ UNCHANGED iovars
    /\ UNCHANGED <<phase, hwvars, cpuvars, diskvars>>

no_handler_out(data) ==
    /\ phase = "run"
    /\ hw_pc = "idle"
    /\ ev' = "no_handler_out"
    /\ UNCHANGED auxvars
    /\ UNCHANGED iovars
    /\ UNCHANGED <<phase, hwvars, cpuvars, diskvars>>

io_in(port) ==
    LET h == port_in[port] IN
    \/ h = "mmu_in" /\ mmu_in
    \/ h = "hwctl_in" /\ hwctl_in
    \/ h = "fpsw_in" /\ fpsw_in
    \/ h \in DevIns /\ dev_in(h)
    \/ h = NULL /\ no_handler_in

io_out(port, data) ==
    LET h == port_out[port] IN
    \/ h = "mmu_out" /\ mmu_out(data)
    \/ h = "hwctl_out" /\ hwctl_out(data)
    \/ h = "fpsw_out" /\ fpsw_out(data)
    \/ h \in DevOuts /\ dev_out(h, data)
    \/ h = NULL /\ no_handler_out(data)

(***************************************************************************)
(* Disk images and emulated memory                                         *)
(***************************************************************************)
Names == {"A", "B"}          \* file names typed at the prompt

\* mount_disk, disks.c:189-192: the path of image 'name'
SFN(name) == "/sdcard/DISKS80/" \o name \o ".DSK"

Paths == {SFN(n) : n \in Names}

FullLen == (TRK + 1) * SPT * SEC_SZ

\* length of each image file on the card: one full image, one cut short
\* in the middle of track 0 sector 2
InitLen(path) == IF path = SFN("A") THEN FullLen ELSE SEC_SZ + 64

\* contents of the card's image files and of memory before any transfer
InitImg(path, off) ==
    ((off \div SEC_SZ) * 13 + off + (IF path = SFN("A") THEN 0 ELSE 101)) % 256
InitMem(a) == (a + (a \div SEC_SZ) * 29 + 7) % 256

\* byte 'off' of an image file
ImgByte(f, path, off) ==
    IF off \in DOMAIN f.data THEN f.data[off]
    ELSE IF off < InitLen(path) THEN InitImg(path, off)
    ELSE 0

\* dma_read (external): the memory facade, flat 64 KiB
dma_read(m, a) == IF a \in DOMAIN m THEN m[a] ELSE InitMem(a)

\* dma_write(WORD addr, BYTE data) takes a 16 bit address
Word(a) == a % ADDR_SPACE

\* prep_io, disks.c:244: the byte offset of a sector in the image
\* (faulty variant: the track not scaled by the sectors per track)
SectorPos_flat(track, sector) == (track + sector - 1) * SEC_SZ
SectorPos(track, sector) == ((track * SPT) + sector - 1) * SEC_SZ

(***************************************************************************)
(* prep_io, disks.c:216-250.  seek_ok is the outcome of lseek for a valid  *)
(* offset; a negative offset is always refused.  The result tells the      *)
(* status, how often open() was called and whether the file is left open.  *)
(***************************************************************************)
PrepRes(stat, opens, isopen, pos) ==
    [stat |-> stat, opens |-> opens, isopen |-> isopen, pos |-> pos]

\* Faulty variant of prep_io: the address checked first
prep_io_dma_first(drive, track, sector, addr, seek_ok) ==
    IF addr > DMA_MAX THEN PrepRes(FDC_STAT_DMAADR, 0, FALSE, -1)
    ELSE IF (drive < 0) \/ (drive > MAX_DRIVE)
    THEN PrepRes(FDC_STAT_DISK, 0, FALSE, -1)
    ELSE IF track > TRK THEN PrepRes(FDC_STAT_TRACK, 0, FALSE, -1)
    ELSE IF (sector < 1) \/ (sector > SPT)
    THEN PrepRes(FDC_STAT_SEC, 0, FALSE, -1)
    ELSE IF disks[drive] = "" THEN PrepRes(FDC_STAT_NODISK, 0, FALSE, -1)
    ELSE IF disks[drive] \notin exists
    THEN PrepRes(FDC_STAT_NODISK, 1, FALSE, -1)
    ELSE LET pos == SectorPos(track, sector) IN
         IF pos < 0 \/ ~seek_ok THEN PrepRes(FDC_STAT_SEEK, 1, FALSE, pos)
         ELSE PrepRes(FDC_STAT_OK, 1, TRUE, pos)

prep_io(drive, track, sector, addr, seek_ok) ==
    IF (drive < 0) \/ (drive > MAX_DRIVE)
    THEN PrepRes(FDC_STAT_DISK, 0, FALSE, -1)
    ELSE IF track > TRK THEN PrepRes(FDC_STAT_TRACK, 0, FALSE, -1)
    ELSE IF (sector < 1) \/ (sector > SPT)
    THEN PrepRes(FDC_STAT_SEC, 0, FALSE, -1)
    ELSE IF addr > DMA_MAX THEN PrepRes(FDC_STAT_DMAADR, 0, FALSE, -1)
    ELSE IF disks[drive] = "" THEN PrepRes(FDC_STAT_NODISK, 0, FALSE, -1)
    ELSE IF disks[drive] \notin exists
    THEN PrepRes(FDC_STAT_NODISK, 1, FALSE, -1)
    ELSE LET pos == SectorPos(track, sector) IN
         IF pos < 0 \/ ~seek_ok THEN PrepRes(FDC_STAT_SEEK, 1, FALSE, pos)
         ELSE PrepRes(FDC_STAT_OK, 1, TRUE, pos)

Min(a, b) == IF a < b THEN a ELSE b
Max(a, b) == IF a > b THEN a ELSE b

(***************************************************************************)
(* sd_file, disks.c:39: the one file handle.  Every routine records the    *)
(* open() and close() calls it makes, in order; open() fails for a file    *)
(* that is not on the card.                                                *)
(***************************************************************************)
OpenCall(path) == [call |-> "open", path |-> path, ok |-> path \in exists]
CloseCall(path) == [call |-> "close", path |-> path, ok |-> TRUE]

\* the number of handles open after 'calls', n being open before
RECURSIVE OpenAfter(_, _)
OpenAfter(calls, n) ==
    IF calls = <<>> THEN n
    ELSE LET c == Head(calls) IN
         OpenAfter(Tail(calls),
                   IF c.call = "close" THEN n - 1
                   ELSE IF c.ok THEN n + 1 ELSE n)

\* the largest number of handles open at any point of 'calls'
RECURSIVE PeakOpen(_, _)
PeakOpen(calls, n) ==
    IF calls = <<>> THEN n
    ELSE Max(n, PeakOpen(Tail(calls), OpenAfter(<<Head(calls)>>, n)))

\* prep_io, disks.c:239-248: the calls prep_io made to reach result r
\* (faulty variant: the file is left open when lseek fails)
PrepCalls_seek_leak(r, drive) ==
    IF r.opens = 0 THEN <<>>
    ELSE <<OpenCall(disks[drive])>>

PrepCalls(r, drive) ==
    IF r.opens = 0 THEN <<>>
    ELSE IF r.stat = FDC_STAT_SEEK
    THEN <<OpenCall(disks[drive]), CloseCall(disks[drive])>>
    ELSE <<OpenCall(disks[drive])>>

Window(addr) == {Word(addr + i) : i \in 0..(SEC_SZ - 1)}

\* the index i < n with Word(addr + i) = a, if there is one
InWindow(addr, a, n) == ((a - addr) % ADDR_SPACE) < n
Index(addr, a) == (a - addr) % ADDR_SPACE

Req(op, drive, track, sector, addr, stat, r, br, rd, wr) ==
    [op |-> op, drive |-> drive, track |-> track, sector |-> sector,
     addr |-> addr, stat |-> stat, opens |-> r.opens, pos |-> r.pos,
     io |-> r.isopen, br |-> br, rd |-> rd, wr |-> wr]

\* read(sd_file, dsk_buf, SEC_SZ): the bytes the file holds from pos on
ReadLen(f, pos) == Min(SEC_SZ, Max(0, f.len - pos))

\* dma_write (external) of buf[0..n-1] to addr, addr+1, ...
DmaWriteBuf(m, addr, buf, n) ==
    [a \in (DOMAIN m) \cup {Word(addr + i) : i \in 0..(n - 1)} |->
        IF InWindow(addr, a, n) THEN buf[Index(addr, a)] ELSE m[a]]

(***************************************************************************)
(* read_sec, disks.c:255-287.  io_ok is the outcome of read(): FALSE is an *)
(* I/O error (br < 0).  The file prep_io opened is closed before the       *)
(* return (line 280) and the green LED, switched on at entry, is off again *)
(* at the return, as the red one is in write_sec.                          *)
(***************************************************************************)
\* Faulty variant of read_sec: the bytes of a short read are copied
read_sec_copy_partial(drive, track, sector, addr, seek_ok, io_ok) ==
    LET r == prep_io(drive, track, sector, addr, seek_ok) IN
    /\ phase = "run"
    /\ hw_pc = "idle"
    /\ ev' = "read_sec"
    /\ UNCHANGED auxvars
    /\ UNCHANGED iovars
    /\ nops' = nops + 1
    /\ sd_calls' = PrepCalls(r, drive) \o
                      (IF r.stat = FDC_STAT_OK
                       THEN <<CloseCall(disks[drive])>> ELSE <<>>)
    /\ nopen' = OpenAfter(sd_calls', nopen)
    /\ IF r.stat = FDC_STAT_OK
       THEN LET path == disks[drive]
                br == IF io_ok THEN ReadLen(img[path], r.pos) ELSE -1
            IN /\ dsk_buf' = [i \in 0..(SEC_SZ - 1) |->
                                IF i < br
                                THEN ImgByte(img[path], path, r.pos + i)
                                ELSE dsk_buf[i]]
               /\ IF br >= 0
                  THEN /\ mem' = DmaWriteBuf(mem, addr, dsk_buf', br)
                       /\ req' = Req("read", drive, track, sector, addr,
                                     IF br < SEC_SZ THEN FDC_STAT_READ
                                     ELSE FDC_STAT_OK, r, br, {},
                                     {Word(addr + i) : i \in 0..(br - 1)})
                  ELSE /\ mem' = mem
                       /\ req' = Req("read", drive, track, sector, addr,
                                     FDC_STAT_READ, r, br, {}, {})
       ELSE /\ req' = Req("read", drive, track, sector, addr, r.stat, r,
                          0, {}, {})
            /\ UNCHANGED <<mem, dsk_buf>>
    /\ UNCHANGED <<phase, hwvars, cpuvars, disks, exists, img, wlog, mnt>>

read_sec(drive, track, sector, addr, seek_ok, io_ok) ==
    LET r == prep_io(drive, track, sector, addr, seek_ok) IN
    /\ phase = "run"
    /\ hw_pc = "idle"
    /\ ev' = "read_sec"
    /\ UNCHANGED auxvars
    /\ UNCHANGED iovars
    /\ nops' = nops + 1
    /\ sd_calls' = PrepCalls(r, drive) \o
                      (IF r.stat = FDC_STAT_OK
                       THEN <<CloseCall(disks[drive])>> ELSE <<>>)
    /\ nopen' = OpenAfter(sd_calls', nopen)
    /\ IF r.stat = FDC_STAT_OK
       THEN LET path == disks[drive]
                br == IF io_ok THEN ReadLen(img[path], r.pos) ELSE -1
            IN /\ dsk_buf' = [i \in 0..(SEC_SZ - 1) |->
                                IF i < br
                                THEN ImgByte(img[path], path, r.pos + i)
                                ELSE dsk_buf[i]]
               /\ IF br >= 0 /\ ~(br < SEC_SZ)
                  THEN /\ mem' = DmaWriteBuf(mem, addr, dsk_buf', SEC_SZ)
                       /\ req' = Req("read", drive, track, sector, addr,
                                     FDC_STAT_OK, r, br, {}, Window(addr))
                  ELSE /\ mem' = mem
                       /\ req' = Req("read", drive, track, sector, addr,
                                     FDC_STAT_READ, r, br, {}, {})
       ELSE /\ req' = Req("read", drive, track, sector, addr, r.stat, r,
                          0, {}, {})
            /\ UNCHANGED <<mem, dsk_buf>>
    /\ UNCHANGED <<phase, hwvars, cpuvars, disks, exists, img, wlog, mnt>>

\* write(sd_file, buf, SEC_SZ) that stored n bytes at pos
FileWrite(f, pos, buf, n) ==
    [len |-> IF n > 0 THEN Max(f.len, pos + n) ELSE f.len,
     data |-> [o \in (DOMAIN f.data) \cup {pos + i : i \in 0..(n - 1)} |->
                 IF o >= pos /\ o < pos + n THEN buf[o - pos]
                 ELSE f.data[o]]]

\* history: the bytes memory holds at addr .. addr+SEC_SZ-1
MemSector(m, addr) == [i \in 0..(SEC_SZ - 1) |-> dma_read(m, Word(addr + i))]

WLogPut(key, content, ok) ==
    IF ok THEN [k \in (DOMAIN wlog) \cup {key} |->
                  IF k = key THEN content ELSE wlog[k]]
    ELSE [k \in (DOMAIN wlog) \ {key} |-> wlog[k]]

(***************************************************************************)
(* write_sec, disks.c:292-323.  bw is the outcome of write(): SEC_SZ, a    *)
(* short count, or -1 for an I/O error.                                    *)
(***************************************************************************)
\* Faulty variant of write_sec: the buffer is written without being filled
write_sec_stale_buf(drive, track, sector, addr, seek_ok, bw) ==
    LET r == prep_io(drive, track, sector, addr, seek_ok) IN
    /\ phase = "run"
    /\ hw_pc = "idle"
    /\ ev' = "write_sec"
    /\ UNCHANGED auxvars
    /\ UNCHANGED iovars
    /\ nops' = nops + 1
    /\ sd_calls' = PrepCalls(r, drive) \o
                      (IF r.stat = FDC_STAT_OK
                       THEN <<CloseCall(disks[drive])>> ELSE <<>>)
    /\ nopen' = OpenAfter(sd_calls', nopen)
    /\ IF r.stat = FDC_STAT_OK
       THEN LET path == disks[drive] IN
            /\ dsk_buf' = dsk_buf
            /\ img' = [img EXCEPT ![path] =
                         FileWrite(img[path], r.pos, dsk_buf', Max(bw, 0))]
            /\ req' = Req("write", drive, track, sector, addr,
                          IF bw >= 0 /\ ~(bw < SEC_SZ) THEN FDC_STAT_OK
                          ELSE FDC_STAT_WRITE, r, bw, Window(addr), {})
            /\ wlog' = WLogPut(<<path, track, sector>>,
                               MemSector(mem, addr), bw = SEC_SZ)
       ELSE /\ req' = Req("write", drive, track, sector, addr, r.stat, r,
                          0, {}, {})
            /\ UNCHANGED <<img, dsk_buf, wlog>>
    /\ UNCHANGED <<phase, hwvars, cpuvars, disks, exists, mem, mnt>>

write_sec(drive, track, sector, addr, seek_ok, bw) ==
    LET r == prep_io(drive, track, sector, addr, seek_ok) IN
    /\ phase = "run"
    /\ hw_pc = "idle"
    /\ ev' = "write_sec"
    /\ UNCHANGED auxvars
    /\ UNCHANGED iovars
    /\ nops' = nops + 1
    /\ sd_calls' = PrepCalls(r, drive) \o
                      (IF r.stat = FDC_STAT_OK
                       THEN <<CloseCall(disks[drive])>> ELSE <<>>)
    /\ nopen' = OpenAfter(sd_calls', nopen)
    /\ IF r.stat = FDC_STAT_OK
       THEN LET path == disks[drive] IN
            /\ dsk_buf' = [i \in 0..(SEC_SZ - 1) |->
                             dma_read(mem, Word(addr + i))]
            /\ img' = [img EXCEPT ![path] =
                         FileWrite(img[path], r.pos, dsk_buf', Max(bw, 0))]
            /\ req' = Req("write", drive, track, sector, addr,
                          IF bw >= 0 /\ ~(bw < SEC_SZ) THEN FDC_STAT_OK
                          ELSE FDC_STAT_WRITE, r, bw, Window(addr), {})
            /\ wlog' = WLogPut(<<path, track, sector>>,
                               MemSector(mem, addr), bw = SEC_SZ)
       ELSE /\ req' = Req("write", drive, track, sector, addr, r.stat, r,
                          0, {}, {})
            /\ UNCHANGED <<img, dsk_buf, wlog>>
    /\ UNCHANGED <<phase, hwvars, cpuvars, disks, exists, mem, mnt>>

(***************************************************************************)
(* mount_disk, disks.c:184-211                                             *)
(***************************************************************************)
\* history: the arguments of a mount_disk call, and whether the step before
\* was a mount_disk call with the same arguments
MountCall(drive, name) ==
    [drive |-> drive, name |-> name,
     again |-> ev = "mount_disk" /\ mnt.drive = drive /\ mnt.name = name]

\* Faulty variants of mount_disk: one without the check for a second
\* mount of the same image, one that also rejects the drive's own image,
\* one that looks for the image on the lower drives only
mount_disk_no_guard(drive, name) ==
    LET sfn == SFN(name) IN
    /\ phase = "config"
    /\ ev' = "mount_disk"
    /\ UNCHANGED auxvars
    /\ UNCHANGED iovars
    /\ mnt' = MountCall(drive, name)
    /\ IF sfn \notin exists
       THEN /\ sd_calls' = <<OpenCall(sfn)>>
            /\ UNCHANGED disks
       ELSE /\ sd_calls' = <<OpenCall(sfn), CloseCall(sfn)>>
            /\ disks' = [disks EXCEPT ![drive] = sfn]
    /\ nopen' = OpenAfter(sd_calls', nopen)
    /\ UNCHANGED <<phase, hwvars, cpuvars>>
    /\ UNCHANGED <<exists, img, mem, dsk_buf, req, wlog, nops>>

mount_disk_guard_self(drive, name) ==
    LET sfn == SFN(name) IN
    /\ phase = "config"
    /\ ev' = "mount_disk"
    /\ UNCHANGED auxvars
    /\ UNCHANGED iovars
    /\ mnt' = MountCall(drive, name)
    /\ IF \E i \in 0..(NUMDISK - 1) : disks[i] = sfn
       THEN /\ sd_calls' = <<>>
            /\ UNCHANGED disks
       ELSE IF sfn \notin exists
       THEN /\ sd_calls' = <<OpenCall(sfn)>>
            /\ UNCHANGED disks
       ELSE /\ sd_calls' = <<OpenCall(sfn), CloseCall(sfn)>>
            /\ disks' = [disks EXCEPT ![drive] = sfn]
    /\ nopen' = OpenAfter(sd_calls', nopen)
    /\ UNCHANGED <<phase, hwvars, cpuvars>>
    /\ UNCHANGED <<exists, img, mem, dsk_buf, req, wlog, nops>>

mount_disk_guard_lower(drive, name) ==
    LET sfn == SFN(name) IN
    /\ phase = "config"
    /\ ev' = "mount_disk"
    /\ UNCHANGED auxvars
    /\ UNCHANGED iovars
    /\ mnt' = MountCall(drive, name)
    /\ IF \E i \in 0..(drive - 1) : disks[i] = sfn
       THEN /\ sd_calls' = <<>>
            /\ UNCHANGED disks
       ELSE IF sfn \notin exists
       THEN /\ sd_calls' = <<OpenCall(sfn)>>
            /\ UNCHANGED disks
       ELSE /\ sd_calls' = <<OpenCall(sfn), CloseCall(sfn)>>
            /\ disks' = [disks EXCEPT ![drive] = sfn]
    /\ nopen' = OpenAfter(sd_calls', nopen)
    /\ UNCHANGED <<phase, hwvars, cpuvars>>
    /\ UNCHANGED <<exists, img, mem, dsk_buf, req, wlog, nops>>

mount_disk(drive, name) ==
    LET sfn == SFN(name) IN
    /\ phase = "config"
    /\ ev' = "mount_disk"
    /\ UNCHANGED auxvars
    /\ UNCHANGED iovars
    /\ mnt' = MountCall(drive, name)
    /\ IF \E i \in 0..(NUMDISK - 1) : i # drive /\ disks[i] = sfn
       THEN /\ sd_calls' = <<>>
            /\ UNCHANGED disks
       ELSE IF sfn \notin exists
       THEN /\ sd_calls' = <<OpenCall(sfn)>>
            /\ UNCHANGED disks
       ELSE /\ sd_calls' = <<OpenCall(sfn), CloseCall(sfn)>>
            /\ disks' = [disks EXCEPT ![drive] = sfn]
    /\ nopen' = OpenAfter(sd_calls', nopen)
    /\ UNCHANGED <<phase, hwvars, cpuvars>>
    /\ UNCHANGED <<exists, img, mem, dsk_buf, req, wlog, nops>>

(***************************************************************************)
(* check_disks, disks.c:160-179: every slot that names a file is probed in *)
(* drive order and cleared when the file does not open.  Nothing in the    *)
(* sources calls it; it is taken to run while the machine is configured.   *)
(***************************************************************************)
RECURSIVE CheckCalls(_)
CheckCalls(i) ==
    IF i >= NUMDISK THEN <<>>
    ELSE IF disks[i] = "" THEN CheckCalls(i + 1)
    ELSE IF disks[i] \notin exists
    THEN <<OpenCall(disks[i])>> \o CheckCalls(i + 1)
    ELSE <<OpenCall(disks[i]), CloseCall(disks[i])>> \o CheckCalls(i + 1)

\* Faulty variant of check_disks: the slots after a cleared one are cleared
check_disks_clear_rest ==
    /\ phase = "config"
    /\ ev' = "check_disks"
    /\ UNCHANGED auxvars
    /\ UNCHANGED iovars
    /\ sd_calls' = CheckCalls(0)
    /\ nopen' = OpenAfter(sd_calls', nopen)
    /\ disks' = [i \in 0..(NUMDISK - 1) |->
                   IF \E j \in 0..i : disks[j] # "" /\ disks[j] \notin exists
                   THEN "" ELSE disks[i]]
    /\ UNCHANGED <<phase, hwvars, cpuvars>>
    /\ UNCHANGED <<exists, img, mem, dsk_buf, req, wlog, nops, mnt>>

check_disks ==
    /\ phase = "config"
    /\ ev' = "check_disks"
    /\ UNCHANGED auxvars
    /\ UNCHANGED iovars
    /\ sd_calls' = CheckCalls(0)
    /\ nopen' = OpenAfter(sd_calls', nopen)
    /\ disks' = [i \in 0..(NUMDISK - 1) |->
                   IF disks[i] # "" /\ disks[i] \notin exists
                   THEN "" ELSE disks[i]]
    /\ UNCHANGED <<phase, hwvars, cpuvars>>
    /\ UNCHANGED <<exists, img, mem, dsk_buf, req, wlog, nops, mnt>>

(***************************************************************************)
(* load_file, disks.c:122-155, called from the configuration dialog        *)
(* (simcfg.c:166-172).  fail_at is the record at which read() reports an   *)
(* error, -1 for none.  The file is read record by record into dsk_buf and *)
(* copied to memory from address 0 on; the loop ends at a record shorter   *)
(* than SEC_SZ, at a read() of 0 bytes or at a read() that fails.          *)
(***************************************************************************)
CodeNames == {"PROG", "FULL"} \* the program files on the card
CFN(name) == "/sdcard/CODE80/" \o name \o ".BIN"
CodeLen == SEC_SZ + 3        \* one full record and a short one
CodeByte(off) == (off * 3 + 17) % 256
\* the file FULL ends on a record boundary, so that read() returns 0 after it
CodeLenOf(name) == IF name = "FULL" THEN SEC_SZ ELSE CodeLen
FileByte(name, off) ==
    IF name = "FULL" THEN (off * 5 + 1) % 256 ELSE CodeByte(off)

\* read() fails at record fail_at if the loop gets that far
ReadFails(len, fail_at) == fail_at >= 0 /\ fail_at * SEC_SZ <= len

\* Faulty variant of Loaded: the final short record is not copied
Loaded_full_records(len, fail_at) ==
    IF ReadFails(len, fail_at) THEN fail_at * SEC_SZ
    ELSE (len \div SEC_SZ) * SEC_SZ

\* the bytes read before the loop ends
Loaded(len, fail_at) ==
    IF ReadFails(len, fail_at) THEN fail_at * SEC_SZ ELSE len

\* what load_file has reported: br is the result of the last read()
NoLoad == [name |-> "", msg |-> "none", br |-> 0, written |-> 0, bytes |-> 0]

LoadReport(name, len, fail_at, n) ==
    IF ReadFails(len, fail_at)
    THEN [name |-> name, msg |-> "fread error", br |-> -1, written |-> n,
          bytes |-> 0]
    ELSE [name |-> name, msg |-> "loaded file", br |-> len % SEC_SZ,
          written |-> n,
          bytes |-> (len \div SEC_SZ) * SEC_SZ + (len % SEC_SZ)]

load_file(name, fail_at) ==
    LET sfn == CFN(name)
        len == CodeLenOf(name)
        n == Loaded(len, fail_at)
    IN
    /\ phase = "config"
    /\ ev' = "load_file"
    /\ UNCHANGED <<uart_pc, ice, cl, speed, cfg_file, cfg_rec>>
    /\ UNCHANGED iovars
    /\ IF sfn \notin exists
       THEN /\ sd_calls' = <<OpenCall(sfn)>>
            /\ load_rep' = [name |-> name, msg |-> "File not found",
                            br |-> 0, written |-> 0, bytes |-> 0]
            /\ UNCHANGED <<mem, dsk_buf>>
       ELSE /\ sd_calls' = <<OpenCall(sfn), CloseCall(sfn)>>
            /\ load_rep' = LoadReport(name, len, fail_at, n)
            /\ mem' = [a \in (DOMAIN mem) \cup {Word(o) : o \in 0..(n - 1)} |->
                         IF a < n THEN FileByte(name, a) ELSE mem[a]]
            /\ dsk_buf' = [j \in 0..(SEC_SZ - 1) |->
                             IF j < n
                             THEN FileByte(name,
                                           ((n - 1 - j) \div SEC_SZ) * SEC_SZ
                                           + j)
                             ELSE dsk_buf[j]]
    /\ nopen' = OpenAfter(sd_calls', nopen)
    /\ UNCHANGED <<phase, hwvars, cpuvars>>
    /\ UNCHANGED <<disks, exists, img, req, wlog, nops, mnt>>

(***************************************************************************)
(* config, simcfg.c:180-192: an empty file name unmounts the drive         *)
(***************************************************************************)
unmount_disk(drive) ==
    /\ phase = "config"
    /\ ev' = "unmount_disk"
    /\ UNCHANGED auxvars
    /\ UNCHANGED iovars
    /\ disks' = [disks EXCEPT ![drive] = ""]
    /\ UNCHANGED <<phase, hwvars, cpuvars>>
    /\ UNCHANGED <<exists, img, mem, dsk_buf, nopen, req, wlog, nops,
                   sd_calls, mnt>>

(***************************************************************************)
(* The SD card (external): an image file that a drive still names is gone  *)
(* from the card, the case check_disks (disks.c:160-179) looks for.        *)
(***************************************************************************)
sd_remove(path) ==
    /\ phase = "config"
    /\ path \in exists
    /\ ev' = "sd_remove"
    /\ UNCHANGED auxvars
    /\ UNCHANGED iovars
    /\ exists' = exists \ {path}
    /\ UNCHANGED <<phase, hwvars, cpuvars>>
    /\ UNCHANGED <<disks, img, mem, dsk_buf, nopen, req, wlog, nops,
                   sd_calls, mnt>>

(***************************************************************************)
(* uart_event_task, cydsim.c:70-85: a task of its own, created at          *)
(* cydsim.c:125.  On a BREAK it writes cpu_error and then cpu_state; the   *)
(* other contexts run between the two writes.                              *)
(***************************************************************************)
\* Faulty variant of the first write: cpu_state is written first
uart_event_task_state_first ==
    /\ uart_pc = "wait"
    /\ ev' = "uart_event_task_error"
    /\ cpu_state' = ST_STOPPED
    /\ uart_pc' = "stop"
    /\ UNCHANGED <<ice, cl, speed, cfg_file, cfg_rec, load_rep>>
    /\ UNCHANGED <<phase, hwvars, cpu_error, PC, cpu, diskvars, iovars>>

uart_event_task_error ==
    /\ uart_pc = "wait"
    /\ ev' = "uart_event_task_error"
    /\ cpu_error' = USERINT
    /\ uart_pc' = "stop"
    /\ UNCHANGED <<ice, cl, speed, cfg_file, cfg_rec, load_rep>>
    /\ UNCHANGED <<phase, hwvars, cpu_state, PC, cpu, diskvars, iovars>>

uart_event_task_stop ==
    /\ uart_pc = "stop"
    /\ ev' = "uart_event_task_stop"
    /\ cpu_state' = ST_STOPPED
    /\ uart_pc' = "wait"
    /\ UNCHANGED <<ice, cl, speed, cfg_file, cfg_rec, load_rep>>
    /\ UNCHANGED <<phase, hwvars, cpu_error, PC, cpu, diskvars, iovars>>

(***************************************************************************)
(* timeout, cydsim.c:217-226: the alarm callback of the timer that the     *)
(* clock measurement command starts; the alarm is not reloaded, so that it *)
(* fires once.                                                             *)
(***************************************************************************)
timeout ==
    /\ ice.timer = "running"
    /\ ~ice.fired
    /\ ev' = "timeout"
    /\ cpu_state' = ST_STOPPED
    /\ ice' = [ice EXCEPT !.fired = TRUE]
    /\ UNCHANGED <<uart_pc, cl, speed, cfg_file, cfg_rec, load_rep>>
    /\ UNCHANGED <<phase, hwvars, cpu_error, PC, cpu, diskvars, iovars>>

(***************************************************************************)
(* cydsim_ice_cmd, command 'c', cydsim.c:253-314.  ice_c_begin is the part *)
(* up to the call of run_cpu (271-286), which sets the CPU running without *)
(* an error; ice_c_end is the part after run_cpu has returned (288-313).   *)
(* getmem and putmem (external) are the memory facade.                     *)
(***************************************************************************)
putmem3(m, b0, b1, b2) ==
    [a \in (DOMAIN m) \cup {0, 1, 2} |->
        IF a = 0 THEN b0 ELSE IF a = 1 THEN b1 ELSE IF a = 2 THEN b2
        ELSE m[a]]

ice_c_begin ==
    /\ phase = "run"
    /\ hw_pc = "idle"
    /\ ice.pc = "idle"
    /\ cpu_state = ST_STOPPED
    /\ ev' = "ice_c_begin"
    /\ ice' = [pc |-> "run",
               save |-> <<dma_read(mem, 0), dma_read(mem, 1),
                          dma_read(mem, 2)>>,
               save_PC |-> PC,
               timer |-> "running", fired |-> FALSE, brk |-> FALSE,
               before |-> <<PC, dma_read(mem, 0), dma_read(mem, 1),
                            dma_read(mem, 2)>>]
    /\ mem' = putmem3(mem, JP_OPCODE, 0, 0)
    /\ PC' = 0
    /\ cpu_state' = ST_CONTIN_RUN
    /\ cpu_error' = NONE
    /\ UNCHANGED <<uart_pc, cl, speed, cfg_file, cfg_rec, load_rep>>
    /\ UNCHANGED <<phase, hwvars, cpu, iovars>>
    /\ UNCHANGED <<disks, exists, img, dsk_buf, nopen, req, wlog, nops,
                   sd_calls, mnt>>

\* the CPU engine (external) executes the jump instruction PC points to
cpu_jp ==
    /\ ice.pc = "run"
    /\ cpu_state = ST_CONTIN_RUN
    /\ dma_read(mem, PC) = JP_OPCODE
    /\ ev' = "cpu_jp"
    /\ PC' = dma_read(mem, Word(PC + 1)) + 256 * dma_read(mem, Word(PC + 2))
    /\ UNCHANGED auxvars
    /\ UNCHANGED <<phase, hwvars, cpu_state, cpu_error, cpu, diskvars, iovars>>

\* Faulty variant of ice_c_end: the third byte is not put back
ice_c_end_two_bytes ==
    /\ ice.pc = "run"
    /\ cpu_state # ST_CONTIN_RUN
    /\ ev' = "ice_c_end"
    /\ ice' = [ice EXCEPT !.pc = "idle", !.timer = "deleted",
                          !.brk = (cpu_error # NONE)]
    /\ PC' = ice.save_PC
    /\ mem' = putmem3(mem, ice.save[1], ice.save[2], dma_read(mem, 2))
    /\ UNCHANGED <<uart_pc, cl, speed, cfg_file, cfg_rec, load_rep>>
    /\ UNCHANGED <<phase, hwvars, cpu_state, cpu_error, cpu, iovars>>
    /\ UNCHANGED <<disks, exists, img, dsk_buf, nopen, req, wlog, nops,
                   sd_calls, mnt>>

ice_c_end ==
    /\ ice.pc = "run"
    /\ cpu_state # ST_CONTIN_RUN
    /\ ev' = "ice_c_end"
    /\ ice' = [ice EXCEPT !.pc = "idle", !.timer = "deleted",
                          !.brk = (cpu_error # NONE)]
    /\ PC' = ice.save_PC
    /\ mem' = putmem3(mem, ice.save[1], ice.save[2], ice.save[3])
    /\ UNCHANGED <<uart_pc, cl, speed, cfg_file, cfg_rec, load_rep>>
    /\ UNCHANGED <<phase, hwvars, cpu_state, cpu_error, cpu, iovars>>
    /\ UNCHANGED <<disks, exists, img, dsk_buf, nopen, req, wlog, nops,
                   sd_calls, mnt>>

(***************************************************************************)
(* Initial state: app_main (cydsim.c:134-145) up to the start of config()  *)
(***************************************************************************)
NoIce == [pc |-> "idle", save |-> <<0, 0, 0>>, save_PC |-> 0,
          timer |-> "none", fired |-> FALSE, brk |-> FALSE,
          before |-> <<0, 0, 0, 0>>]

NoCmdline == [len |-> 0, i |-> 0, buf |-> <<>>, pc |-> "idle", n |-> 0,
              last |-> 0]

(***************************************************************************)
(* get_cmdline, cydsim.c:181-209.  A call is a step for its entry and a    *)
(* step for each character that getchar() delivers; the step of the        *)
(* character that ends the loop also writes the terminating NUL.  buf      *)
(* holds the cells the call has written, whatever their index.             *)
(***************************************************************************)
BS == 8
DEL == 127
CR == 13
NUL == 0
Chars == {BS, DEL, CR, 97, 98}

\* Faulty variant of HasRoom: the cell of the terminating NUL is used too
HasRoom_no_nul(i, len) == i < len

\* cydsim.c:196
HasRoom(i, len) == i < len - 1

Put(buf, i, c) == [k \in (DOMAIN buf) \cup {i} |-> IF k = i THEN c ELSE buf[k]]

get_cmdline(len) ==
    /\ cl.pc \in {"idle", "done"}
    /\ ev' = "get_cmdline"
    /\ cl' = [len |-> len, i |-> 0, buf |-> <<>>, pc |-> "read", n |-> 0,
              last |-> 0]
    /\ UNCHANGED <<uart_pc, ice, speed, cfg_file, cfg_rec, load_rep>>
    /\ UNCHANGED <<phase, hwvars, cpuvars, diskvars, iovars>>

get_cmdline_char(c) ==
    LET erase == (c = BS) \/ (c = DEL)
        store == ~erase /\ c # CR /\ HasRoom(cl.i, cl.len)
        i1 == IF erase THEN (IF cl.i >= 1 THEN cl.i - 1 ELSE cl.i)
              ELSE IF store THEN cl.i + 1 ELSE cl.i
        b1 == IF store THEN Put(cl.buf, cl.i, c) ELSE cl.buf
        done == (c = CR) \/ (store /\ cl.len = 2)
    IN
    /\ cl.pc = "read"
    /\ cl.n < MaxChars \/ c = CR
    /\ ev' = "get_cmdline_char"
    /\ cl' = [len |-> cl.len, i |-> i1,
              buf |-> IF done THEN Put(b1, i1, NUL) ELSE b1,
              pc |-> IF done THEN "done" ELSE "read",
              n |-> cl.n + 1, last |-> c]
    /\ UNCHANGED <<uart_pc, ice, speed, cfg_file, cfg_rec, load_rep>>
    /\ UNCHANGED <<phase, hwvars, cpuvars, diskvars, iovars>>

NoRec == [cpu |-> "", speed |-> -1, fp_value |-> -1, disks |-> <<>>]

NoMount == [drive |-> -1, name |-> "", again |-> FALSE]

NoReq == [op |-> "none", drive |-> 0, track |-> 0, sector |-> 0, addr |-> 0,
          stat |-> FDC_STAT_OK, opens |-> 0, pos |-> -1, io |-> FALSE,
          br |-> 0, rd |-> {}, wr |-> {}]

InitWith(r) ==
    /\ phase = "config"
    /\ ev = "init"
    /\ hwctl_lock = LOCKED
    /\ hw_pc = "idle"
    /\ hw_data = 0
    /\ hw_armed = FALSE
    /\ hw_unl = NoSnap
    /\ hw_calls = <<>>
    /\ cpu_state = ST_STOPPED
    /\ cpu_error = NONE
    /\ PC = BOOT_PC
    /\ cpu = Z80
    /\ disks = [d \in 0..(NUMDISK - 1) |-> ""]
    /\ exists = Paths \cup {CFN(n) : n \in CodeNames}
    /\ img = [p \in Paths |-> [len |-> InitLen(p), data |-> <<>>]]
    /\ mem = <<>>
    /\ dsk_buf = [i \in 0..(SEC_SZ - 1) |-> 0]
    /\ nopen = 0
    /\ req = r
    /\ wlog = <<>>
    /\ nops = 0
    /\ sd_calls = <<>>
    /\ mnt = NoMount
    /\ selbnk = 0
    /\ curbnk = 0
    /\ fp_value = 0
    /\ io_data = 0
    /\ io_ret = 0
    /\ uart_pc = "wait"
    /\ ice = NoIce
    /\ cl = NoCmdline
    /\ speed = CPU_SPEED
    /\ cfg_file = <<>>
    /\ cfg_rec = NoRec
    /\ load_rep = NoLoad

Init == InitWith(NoReq)

(***************************************************************************)
(* app_main, cydsim.c:162-173 and 87-145, and config, simcfg.c:86-98: when *)
(* the machine is done the chip is restarted, every variable starts from   *)
(* its initial value, and the dialog reads the configuration file.  The    *)
(* files of the card stay.                                                 *)
(***************************************************************************)
app_restart ==
    /\ phase = "run"
    /\ hw_pc = "idle"
    /\ ice.pc = "idle"
    /\ cpu_state = ST_STOPPED
    /\ phase' = "config"
    /\ ev' = "app_restart"
    /\ hwctl_lock' = LOCKED
    /\ hw_pc' = "idle"
    /\ hw_data' = 0
    /\ hw_armed' = FALSE
    /\ hw_unl' = NoSnap
    /\ hw_calls' = <<>>
    /\ cpu_state' = ST_STOPPED
    /\ cpu_error' = NONE
    /\ PC' = BOOT_PC
    /\ mem' = <<>>
    /\ dsk_buf' = [i \in 0..(SEC_SZ - 1) |-> 0]
    /\ nopen' = 0
    /\ req' = NoReq
    /\ wlog' = <<>>
    /\ nops' = 0
    /\ mnt' = NoMount
    /\ selbnk' = 0
    /\ curbnk' = 0
    /\ io_data' = 0
    /\ io_ret' = 0
    /\ uart_pc' = "wait"
    /\ ice' = NoIce
    /\ cl' = NoCmdline
    /\ load_rep' = NoLoad
    /\ UNCHANGED <<exists, img, cfg_file, cfg_rec>>
    /\ IF cfg_file = <<>>
       THEN /\ sd_calls' = <<[call |-> "open", path |-> CFG, ok |-> FALSE]>>
            /\ cpu' = Z80
            /\ speed' = CPU_SPEED
            /\ fp_value' = 0
            /\ disks' = [d \in 0..(NUMDISK - 1) |-> ""]
       ELSE /\ sd_calls' = <<[call |-> "open", path |-> CFG, ok |-> TRUE],
                             [call |-> "close", path |-> CFG, ok |-> TRUE]>>
            /\ cpu' = CfgRead(cfg_file, 1, GarbageStr)
            /\ speed' = CfgRead(cfg_file, 2, GarbageInt)
            /\ fp_value' = CfgRead(cfg_file, 3, GarbageInt)
            /\ disks' = [d \in 0..(NUMDISK - 1) |->
                            CfgRead(cfg_file, 4 + d, GarbageStr)]


(***************************************************************************)
(* SpecHw: the hardware control port while the CPU runs                    *)
(***************************************************************************)
NextHw ==
    \/ config_switch_cpu
    \/ config_go
    \/ run_cpu
    \/ \E data \in BYTE : hwctl_out(data)
    \/ hwctl_cmd

SpecHw == Init /\ [][NextHw]_vars

(***************************************************************************)
(* SpecDisk: sector requests with arguments on both sides of every bound   *)
(* that prep_io checks, against one image mounted on any drive or gone     *)
(* from the card.                                                          *)
(***************************************************************************)
DrivesV == {-1, 0, MAX_DRIVE, MAX_DRIVE + 1}
TracksV == {-1, 0, TRK, TRK + 1}
SectorsV == {0, 1, SPT, SPT + 1}
AddrsV == {0, DMA_MAX, DMA_MAX + 1}

\* the outcomes of lseek, read and write matter only to a request that
\* gets that far
SeekEnv(d, t, s, a) ==
    IF prep_io(d, t, s, a, TRUE).stat = FDC_STAT_OK THEN BOOLEAN ELSE {TRUE}
ReadEnv(d, t, s, a) ==
    IF prep_io(d, t, s, a, TRUE).stat = FDC_STAT_OK THEN BOOLEAN ELSE {TRUE}
WriteEnv(d, t, s, a) ==
    IF prep_io(d, t, s, a, TRUE).stat = FDC_STAT_OK
    THEN {-1, SEC_SZ \div 2, SEC_SZ} ELSE {SEC_SZ}

NextDisk ==
    \/ \E d \in {0, MAX_DRIVE} : mount_disk(d, "A")
    \/ \E d \in {0, MAX_DRIVE} : unmount_disk(d)
    \/ sd_remove(SFN("A"))
    \/ config_go
    \/ /\ nops < MaxOps
       /\ \E d \in DrivesV, t \in TracksV, s \in SectorsV, a \in AddrsV :
             \E seek_ok \in SeekEnv(d, t, s, a), io_ok \in ReadEnv(d, t, s, a) :
                read_sec(d, t, s, a, seek_ok, io_ok)
    \/ /\ nops < MaxOps
       /\ \E d \in DrivesV, t \in TracksV, s \in SectorsV, a \in AddrsV :
             \E seek_ok \in SeekEnv(d, t, s, a), bw \in WriteEnv(d, t, s, a) :
                write_sec(d, t, s, a, seek_ok, bw)

SpecDisk == Init /\ [][NextDisk]_vars

(***************************************************************************)
(* SpecXfer: sequences of transfers between two images on two drives, a    *)
(* few sectors and two memory buffers.                                     *)
(***************************************************************************)
DrivesX == {0, 1}
TracksX == {0, 1}
SectorsX == {1, 2}
AddrsX == {0, SEC_SZ}

NextXfer ==
    \/ \E d \in DrivesX, n \in Names : mount_disk(d, n)
    \/ \E d \in DrivesX : unmount_disk(d)
    \/ config_go
    \/ /\ nops < MaxXfer
       /\ \E d \in DrivesX, t \in TracksX, s \in SectorsX, a \in AddrsX,
             io_ok \in BOOLEAN :
             read_sec(d, t, s, a, TRUE, io_ok)
    \/ /\ nops < MaxXfer
       /\ \E d \in DrivesX, t \in TracksX, s \in SectorsX, a \in AddrsX,
             bw \in {SEC_SZ} :
             write_sec(d, t, s, a, TRUE, bw)

SpecXfer == Init /\ [][NextXfer]_vars

(***************************************************************************)
(* SpecReg: the disk registry during configuration, two images and four    *)
(* drives, image files vanishing from the card.                            *)
(***************************************************************************)
NextReg ==
    \/ \E d \in 0..(NUMDISK - 1), n \in Names : mount_disk(d, n)
    \/ \E d \in 0..(NUMDISK - 1) : unmount_disk(d)
    \/ check_disks
    \/ \E p \in Paths : sd_remove(p)

SpecReg == Init /\ [][NextReg]_vars

(***************************************************************************)
(* SpecFile: every routine that opens a file, with every outcome: a        *)
(* request that fails validation, a file that does not open, a seek that   *)
(* fails, a short or failed transfer, success.                             *)
(***************************************************************************)
DrivesF == {0, NUMDISK}
SectorsF == {1, 2}
LoadNames == CodeNames \cup {"NONE"}
FailAts == {-1, 1}

NextFile ==
    \/ \E n \in Names : mount_disk(0, n)
    \/ check_disks
    \/ \E n \in LoadNames, f \in FailAts : load_file(n, f)
    \/ \E p \in {SFN("A"), CFN("PROG")} : sd_remove(p)
    \/ config_go
    \/ /\ nops < MaxFileOps
       /\ \E d \in DrivesF, s \in SectorsF :
             \E seek_ok \in SeekEnv(d, 0, s, 0), io_ok \in ReadEnv(d, 0, s, 0) :
                read_sec(d, 0, s, 0, seek_ok, io_ok)
    \/ /\ nops < MaxFileOps
       /\ \E d \in DrivesF, s \in SectorsF :
             \E seek_ok \in SeekEnv(d, 0, s, 0), bw \in WriteEnv(d, 0, s, 0) :
                write_sec(d, 0, s, 0, seek_ok, bw)

SpecFile == Init /\ [][NextFile]_vars

(***************************************************************************)
(* SpecMmu: reads and writes of the MMU port while the CPU runs            *)
(***************************************************************************)
MmuBytes == (0..(NUMSEG + 1)) \cup {16, 200, 255}

NextMmu ==
    \/ config_go
    \/ run_cpu
    \/ mmu_in
    \/ \E data \in MmuBytes : mmu_out(data)

SpecMmu == Init /\ [][NextMmu]_vars

(***************************************************************************)
(* SpecPort: IN and OUT on every bound port and on unbound ports next to   *)
(* them                                                                    *)
(***************************************************************************)
PortBytes == {0, MAGIC}
PortsV == {0, 1, 2, 4, MMU_PORT, 65, 66, 67, HWCTL_PORT, 253, 254, 255}

NextPort ==
    \/ config_go
    \/ \E port \in PortsV : io_in(port)
    \/ \E port \in PortsV, data \in PortBytes : io_out(port, data)
    \/ hwctl_cmd

SpecPort == Init /\ [][NextPort]_vars

(***************************************************************************)
(* SpecIce: the clock measurement command and the asynchronous contexts,   *)
(* the UART task and the alarm callback, next to the main context.         *)
(***************************************************************************)
NextIce ==
    \/ load_file("PROG", -1)
    \/ config_go
    \/ ice.pc = "idle" /\ run_cpu
    \/ uart_event_task_error
    \/ uart_event_task_stop
    \/ ice_c_begin
    \/ cpu_jp
    \/ timeout
    \/ ice_c_end

SpecIce == Init /\ [][NextIce]_vars

(***************************************************************************)
(* SpecCfg: the configuration dialog, the run that follows it, in which    *)
(* the program changes the front panel byte, and the restart.              *)
(***************************************************************************)
SpeedIns == {-1, 40}
FpIns == {<<>>, <<"a", "5">>, <<"G", "1">>, <<"9">>}
FpOuts == {7}
DrivesC == {0, 3}

NextCfg ==
    \/ config_switch_cpu
    \/ \E i \in SpeedIns : config_speed(i)
    \/ \E s \in FpIns : config_fp(s)
    \/ \E d \in DrivesC, n \in Names : mount_disk(d, n)
    \/ \E d \in DrivesC : unmount_disk(d)
    \/ config_go
    \/ \E b \in FpOuts : fpsw_out(b)
    \/ app_restart

SpecCfg == Init /\ [][NextCfg]_vars

(***************************************************************************)
(* SpecCmdline: calls of get_cmdline with the buffer lengths its callers   *)
(* pass (cydsim.c:170, simcfg.c:61, 122, 143) and any characters.          *)
(***************************************************************************)
Lens == {2, 3, 5}

NextCmdline ==
    \/ \E len \in Lens : get_cmdline(len)
    \/ \E c \in Chars : get_cmdline_char(c)

SpecCmdline == Init /\ [][NextCmdline]_vars

(***************************************************************************)
(* SpecOffset: the offset computation of prep_io (disks.c:244) applied to  *)
(* every track and sector in range.                                        *)
(***************************************************************************)
InitOffset ==
    \E t \in 0..TRK, s \in 1..SPT :
        InitWith([NoReq EXCEPT !.track = t, !.sector = s])

seek_pos ==
    /\ req.op = "none"
    /\ ev' = "seek_pos"
    /\ UNCHANGED auxvars
    /\ UNCHANGED iovars
    /\ req' = [req EXCEPT !.op = "seek",
                          !.pos = SectorPos(req.track, req.sector)]
    /\ UNCHANGED <<phase, hwvars, cpuvars>>
    /\ UNCHANGED <<disks, exists, img, mem, dsk_buf, nopen, wlog, nops,
                   sd_calls, mnt>>

SpecOffset == InitOffset /\ [][seek_pos]_vars

(***************************************************************************)
(* Properties of the hardware control port (SpecHw)                        *)
(***************************************************************************)

\* C1: one command per unlock.  A byte written to the unlocked port locks
\* the port again without any side effect on the CPU; the command's side
\* effect is applied afterwards, with the port LOCKED before and after, and
\* only when an unlock (0xAA written while LOCKED) has happened since the
\* previous command.
C1_RelockBeforeCommand ==
    [][ /\ (ev' = "hwctl_out" /\ hwctl_lock = UNLOCKED) =>
              /\ hwctl_lock' = LOCKED
              /\ hw_pc' = "cmd"
              /\ hw_calls' = <<>>
              /\ UNCHANGED cpuvars
        /\ (ev' = "hwctl_out") => UNCHANGED cpuvars
        /\ (ev' = "hwctl_cmd") =>
              /\ hwctl_lock = LOCKED
              /\ hwctl_lock' = LOCKED
              /\ hw_armed
              /\ ~hw_armed'
      ]_vars

\* C1 witness: a reset command has been executed and the port is locked
C1_Witness ==
    /\ ev = "hwctl_cmd"
    /\ hw_calls = <<"reset_cpu", "reset_memory">>
    /\ PC = BOOT_PC
    /\ hwctl_lock = LOCKED

\* C2: in LOCKED state a byte other than 0xAA changes nothing, and 0xAA
\* changes only the lock, to UNLOCKED; cpu_state, cpu_error, PC and the CPU
\* model are unchanged and no command is decoded.
C2_LockedFrame ==
    [][ (ev' = "hwctl_out" /\ hwctl_lock = LOCKED) =>
           /\ UNCHANGED cpuvars
           /\ hw_calls' = <<>>
           /\ hw_pc' = "idle"
           /\ IF hw_data' # MAGIC
              THEN hwctl_lock' = LOCKED
              ELSE hwctl_lock' = UNLOCKED
      ]_vars

\* C2 witness: a byte with the halt bit set was written to the locked port
\* while the CPU was running
C2_Witness ==
    /\ ev = "hwctl_out"
    /\ hw_data = 128
    /\ hw_pc = "idle"
    /\ hwctl_lock = LOCKED
    /\ cpu_state = ST_CONTIN_RUN

\* C3 as stated: 0xAA written twice in a row leaves the port UNLOCKED after
\* the first byte and LOCKED after the second, and the second 0xAA is a
\* no-op command: cpu_state, cpu_error, PC and the CPU model are as before
\* the two writes.
C3_DoubleMagicNoop ==
    /\ (ev = "hwctl_out" /\ hw_pc = "idle" /\ hw_unl.valid) =>
          hwctl_lock = UNLOCKED
    /\ (ev = "hwctl_cmd" /\ hw_data = MAGIC /\ hw_unl.valid) =>
          /\ hwctl_lock = LOCKED
          /\ cpu_state = hw_unl.cpu_state
          /\ cpu_error = hw_unl.cpu_error
          /\ PC = hw_unl.PC
          /\ cpu = hw_unl.cpu

\* C3 amended: 0xAA written twice in a row leaves the port UNLOCKED after
\* the first byte and LOCKED after the second; the second 0xAA is decoded
\* as a command with bit 7 set and halts the CPU (cpu_error IOHALT,
\* cpu_state stopped); it does not reset the CPU and does not switch the
\* CPU model, and PC is as before the two writes.
C3_DoubleMagicHalts ==
    /\ (ev = "hwctl_out" /\ hw_pc = "idle" /\ hw_unl.valid) =>
          hwctl_lock = UNLOCKED
    /\ (ev = "hwctl_cmd" /\ hw_data = MAGIC /\ hw_unl.valid) =>
          /\ hwctl_lock = LOCKED
          /\ cpu_state = ST_STOPPED
          /\ cpu_error = IOHALT
          /\ hw_calls = <<>>
          /\ PC = hw_unl.PC
          /\ cpu = hw_unl.cpu

\* C3 witness: the second of two consecutive 0xAA writes has been decoded,
\* the CPU having been running without error before the first
C3_Witness ==
    /\ ev = "hwctl_cmd"
    /\ hw_data = MAGIC
    /\ hw_unl.valid
    /\ hw_unl.cpu_state = ST_CONTIN_RUN
    /\ hw_unl.cpu_error = NONE

\* C4: command decode.  Exactly the action of the most significant set bit
\* among bits 7..4 of the command byte is performed: halt, else reset with
\* PC = 0xFF00, else switch to Z80, else switch to 8080, else nothing; the
\* port is LOCKED afterwards.
C4_CommandDecode ==
    [][ (ev' = "hwctl_cmd") =>
           /\ hwctl_lock' = LOCKED
           /\ hw_pc' = "idle"
           /\ IF hw_data >= 128
              THEN /\ cpu_error' = IOHALT
                   /\ cpu_state' = ST_STOPPED
                   /\ hw_calls' = <<>>
                   /\ UNCHANGED <<PC, cpu>>
              ELSE IF hw_data >= 64
              THEN /\ hw_calls' = <<"reset_cpu", "reset_memory">>
                   /\ PC' = BOOT_PC
                   /\ UNCHANGED <<cpu_state, cpu_error, cpu>>
              ELSE IF hw_data >= 32
              THEN /\ cpu' = Z80
                   /\ hw_calls' = <<"switch_cpu">>
                   /\ UNCHANGED <<cpu_error, PC>>
              ELSE IF hw_data >= 16
              THEN /\ cpu' = I8080
                   /\ hw_calls' = <<"switch_cpu">>
                   /\ UNCHANGED <<cpu_error, PC>>
              ELSE /\ hw_calls' = <<>>
                   /\ UNCHANGED cpuvars
      ]_vars

\* C4 witness: a command with bits 5 and 4 both set has switched to Z80
C4_Witness ==
    /\ ev = "hwctl_cmd"
    /\ hw_data = 48
    /\ cpu = Z80
    /\ hwctl_lock = LOCKED

(***************************************************************************)
(* Properties of the sector I/O engine                                     *)
(***************************************************************************)
ValidationStats ==
    {FDC_STAT_DISK, FDC_STAT_TRACK, FDC_STAT_SEC, FDC_STAT_DMAADR,
     FDC_STAT_NODISK}

\* C5: the status of a request is that of the first failing check in the
\* order drive in range, track <= TRK, sector in [1, SPT], DMA address in
\* range (the range prep_io accepts, addr <= 0xff7f), disk mounted; a
\* request that passes all of them gets none of these statuses, among them
\* the request with track = TRK and sector = SPT.
C5_ValidationOrder ==
    req.op \in {"read", "write"} =>
       IF req.drive \notin 0..(NUMDISK - 1) THEN req.stat = FDC_STAT_DISK
       ELSE IF ~(req.track <= TRK) THEN req.stat = FDC_STAT_TRACK
       ELSE IF req.sector \notin 1..SPT THEN req.stat = FDC_STAT_SEC
       ELSE IF req.addr \notin 0..DMA_MAX THEN req.stat = FDC_STAT_DMAADR
       ELSE IF disks[req.drive] = "" \/ disks[req.drive] \notin exists
       THEN req.stat = FDC_STAT_NODISK
       ELSE req.stat \notin ValidationStats

\* C5 witness: a read of track TRK, sector SPT into the highest accepted
\* address on a mounted drive has succeeded
C5_Witness ==
    /\ req.op = "read"
    /\ req.track = TRK
    /\ req.sector = SPT
    /\ req.addr = DMA_MAX
    /\ req.stat = FDC_STAT_OK

\* C6: a request whose drive is outside 0..3, whose track is outside
\* 0..TRK, whose sector is outside 1..SPT or whose DMA address does not
\* leave room for a sector returns a validation status without opening an
\* image file, without reading or writing emulated memory and without
\* changing cpu_state.
C6_ValidationNoSideEffect ==
    [][ ( /\ ev' \in {"read_sec", "write_sec"}
          /\ \/ req'.drive \notin 0..(NUMDISK - 1)
             \/ req'.track \notin 0..TRK
             \/ req'.sector \notin 1..SPT
             \/ req'.addr + SEC_SZ > ADDR_SPACE ) =>
           /\ req'.stat \in ValidationStats
           /\ req'.opens = 0
           /\ req'.rd = {}
           /\ req'.wr = {}
           /\ mem' = mem
           /\ img' = img
           /\ cpu_state' = cpu_state
      ]_vars

\* C7: with drive, track and sector passing their checks, a request is
\* rejected with BAD_DMA_ADDRESS exactly when addr + SEC_SZ > 0x10000, and
\* an accepted transfer touches no address outside addr .. addr+SEC_SZ-1.
C7_DmaRangeExact ==
    ( /\ req.op \in {"read", "write"}
      /\ req.drive \in 0..(NUMDISK - 1)
      /\ req.track \in 0..TRK
      /\ req.sector \in 1..SPT ) =>
        /\ (req.stat = FDC_STAT_DMAADR) <=> (req.addr + SEC_SZ > ADDR_SPACE)
        /\ (req.rd \cup req.wr) \subseteq req.addr..(req.addr + SEC_SZ - 1)

\* C8: for track in 0..TRK and sector in 1..SPT the seek offset is
\* ((track * SPT) + (sector - 1)) * SEC_SZ; it grows with the sector within
\* a track and with the track, and the SEC_SZ bytes of two distinct
\* (track, sector) pairs do not overlap.
C8_SectorOffset ==
    req.op = "seek" =>
        /\ req.pos = ((req.track * SPT) + (req.sector - 1)) * SEC_SZ
        /\ \A t2 \in 0..TRK, s2 \in 1..SPT :
              /\ (t2 = req.track /\ s2 > req.sector) =>
                    SectorPos(t2, s2) > req.pos
              /\ (t2 > req.track /\ s2 = req.sector) =>
                    SectorPos(t2, s2) > req.pos
              /\ (t2 # req.track \/ s2 # req.sector) =>
                    \/ SectorPos(t2, s2) >= req.pos + SEC_SZ
                    \/ SectorPos(t2, s2) + SEC_SZ <= req.pos

\* C8 witness: the offset of the last sector of the last track
C8_Witness ==
    /\ req.op = "seek"
    /\ req.track = TRK
    /\ req.sector = SPT
    /\ req.pos = FullLen - SEC_SZ

\* C9: a read_sec that returns OK leaves in memory at its address, byte for
\* byte, what the last write_sec to the same sector of the same image that
\* returned OK took from memory, whatever was written to other sectors or
\* other drives in between.
C9_RoundTrip ==
    ( /\ req.op = "read"
      /\ req.stat = FDC_STAT_OK
      /\ <<disks[req.drive], req.track, req.sector>> \in DOMAIN wlog ) =>
        \A i \in 0..(SEC_SZ - 1) :
            dma_read(mem, Word(req.addr + i)) =
               wlog[<<disks[req.drive], req.track, req.sector>>][i]

\* C9 witness: two sectors have been written and one of them read back
\* into the other memory buffer
C9_Witness ==
    /\ req.op = "read"
    /\ req.stat = FDC_STAT_OK
    /\ req.addr = SEC_SZ
    /\ nops = 3
    /\ Cardinality(DOMAIN wlog) = 2
    /\ <<disks[req.drive], req.track, req.sector>> \in DOMAIN wlog
    /\ \E i \in 0..(SEC_SZ - 1) :
          wlog[<<disks[req.drive], req.track, req.sector>>][i] #
             InitMem(Word(req.addr + i))

\* C10: a read() that yields fewer than SEC_SZ bytes or an error makes
\* read_sec return READ_FAILED with no byte of memory written; memory is
\* written only after a full SEC_SZ-byte read, and then read_sec returns OK.
C10_ShortRead ==
    [][ (ev' = "read_sec") =>
           /\ (req'.io /\ req'.br < SEC_SZ) =>
                 /\ req'.stat = FDC_STAT_READ
                 /\ req'.wr = {}
                 /\ mem' = mem
           /\ (req'.wr # {} \/ mem' # mem) =>
                 /\ req'.io
                 /\ req'.br = SEC_SZ
                 /\ req'.stat = FDC_STAT_OK
           /\ (req'.io /\ req'.br = SEC_SZ) =>
                 /\ req'.stat = FDC_STAT_OK
                 /\ req'.wr = Window(req'.addr)
      ]_vars

\* C10 witness: a read that got half a sector from the file has failed
C10_Witness ==
    /\ ev = "read_sec"
    /\ req.io
    /\ req.br = SEC_SZ \div 2
    /\ req.stat = FDC_STAT_READ

(***************************************************************************)
(* Properties of the file handle and of the disk registry                  *)
(***************************************************************************)

\* C11: file handle scoping.  After every call of read_sec, write_sec,
\* mount_disk, check_disks and load_file, whatever its outcome, no file
\* handle is open, and during the call at most one was open at any point.
C11_HandleScoped ==
    /\ nopen = 0
    /\ PeakOpen(sd_calls, 0) <= 1
    /\ OpenAfter(sd_calls, 0) = 0

\* C11 witness: a read_sec whose seek failed has opened the image file and
\* closed it again
C11_Witness ==
    /\ ev = "read_sec"
    /\ req.stat = FDC_STAT_SEEK
    /\ Len(sd_calls) = 2
    /\ sd_calls[1].call = "open"
    /\ sd_calls[1].ok
    /\ sd_calls[2].call = "close"
    /\ nopen = 0

\* C12: mount collision.  mount_disk(d2, name) while another drive d1
\* holds the path of name is rejected: no file is probed and every drive
\* slot is unchanged.
C12_MountCollision ==
    [][ ( /\ ev' = "mount_disk"
          /\ \E d1 \in 0..(NUMDISK - 1) :
                d1 # mnt'.drive /\ disks[d1] = SFN(mnt'.name) ) =>
           /\ disks' = disks
           /\ sd_calls' = <<>>
      ]_vars

\* C12 witness: a mount on drive 1 of the image that drive 0 holds has
\* been rejected without a probe, drive 1 keeping its own other image
C12_Witness ==
    /\ ev = "mount_disk"
    /\ sd_calls = <<>>
    /\ mnt.drive = 1
    /\ disks[1] = SFN("B")
    /\ disks[0] = SFN("A")
    /\ mnt.name = "A"

\* C13: registry uniqueness.  After any sequence of mount_disk, unmount
\* and check_disks calls no two distinct drives hold the same non-empty
\* path.
C13_RegistryUnique ==
    \A i, j \in 0..(NUMDISK - 1) :
        (i # j /\ disks[i] # "") => disks[i] # disks[j]

\* C13 witness: with an image on drive 3, a mount of the same image on
\* drive 0 has been refused
C13_Witness ==
    /\ ev = "mount_disk"
    /\ mnt.drive = 0
    /\ disks[3] = SFN(mnt.name)
    /\ disks[0] = ""

\* C14: mount idempotence.  A second mount_disk(drive, name) directly
\* after the first, the image file being present, leaves every slot as the
\* first call left it; when the drive holds the image the second call is
\* not rejected: it probes the file and the slot holds the same path.
C14_MountIdempotent ==
    [][ ( /\ ev' = "mount_disk"
          /\ mnt'.again
          /\ SFN(mnt'.name) \in exists ) =>
           /\ disks' = disks
           /\ (disks[mnt'.drive] = SFN(mnt'.name)) =>
                 /\ sd_calls' = <<OpenCall(SFN(mnt'.name)),
                                  CloseCall(SFN(mnt'.name))>>
                 /\ disks'[mnt'.drive] = SFN(mnt'.name)
      ]_vars

\* C14 witness: the same mount has been made twice in a row on a drive
\* that holds the image, next to another mounted drive
C14_Witness ==
    /\ ev = "mount_disk"
    /\ mnt.again
    /\ mnt.drive = 2
    /\ disks[2] = SFN(mnt.name)
    /\ Len(sd_calls) = 2
    /\ disks[0] # ""

\* C15: check_disks.  After the call a slot is empty exactly when it was
\* empty before or its file did not open; a slot whose file opens keeps
\* its path; exactly the non-empty slots are probed, in drive order.
C15_CheckDisks ==
    [][ (ev' = "check_disks") =>
           /\ \A i \in 0..(NUMDISK - 1) :
                 /\ (disks'[i] = "") <=>
                       (disks[i] = "" \/ disks[i] \notin exists)
                 /\ (disks[i] # "" /\ disks[i] \in exists) =>
                       disks'[i] = disks[i]
           /\ \A k \in 1..Len(sd_calls') : sd_calls'[k].path # ""
           /\ Cardinality({k \in 1..Len(sd_calls') :
                              sd_calls'[k].call = "open"}) =
              Cardinality({i \in 0..(NUMDISK - 1) : disks[i] # ""})
           /\ {sd_calls'[k].path : k \in 1..Len(sd_calls')} =
              {disks[i] : i \in 0..(NUMDISK - 1)} \ {""}
      ]_vars

\* C15 witness: check_disks has found one image gone and one still there,
\* the one that is gone on the lower drive
C15_Witness ==
    /\ ev = "check_disks"
    /\ Len(sd_calls) = 3
    /\ ~sd_calls[1].ok
    /\ sd_calls[2].ok
    /\ Cardinality({i \in 0..(NUMDISK - 1) : disks[i] # ""}) = 1

(***************************************************************************)
(* Properties of the MMU and of the port tables                            *)
(***************************************************************************)

\* C16: a write of a byte b > NUMSEG to the MMU port is an error:
\* cpu_error becomes IOERROR and cpu_state stopped, and the selected bank
\* and the current-bank pointer are unchanged.
C16_BadBankRejected ==
    [][ (ev' = "mmu_out" /\ io_data' > NUMSEG) =>
           /\ cpu_error' = IOERROR
           /\ cpu_state' = ST_STOPPED
           /\ selbnk' = selbnk
           /\ curbnk' = curbnk
      ]_vars

\* C17: after any sequence of writes to the MMU port the selected bank is
\* in 0..NUMSEG, so that curbnk is a bank that exists.
C17_BankInRange ==
    /\ selbnk \in 0..NUMSEG
    /\ curbnk \in 0..NUMSEG

\* C18: with a bank k > 0 selected, a write of 0 to the MMU port selects
\* bank 0 without halting the CPU, and the selected bank changes with no
\* step but a write to the MMU port.
C18_ReturnToBase ==
    [][ /\ (ev' = "mmu_out" /\ io_data' = 0 /\ selbnk > 0) =>
              /\ selbnk' = 0
              /\ cpu_state' = cpu_state
              /\ cpu_error' = cpu_error
        /\ (ev' # "mmu_out") => selbnk' = selbnk
      ]_vars

\* C19: a read of the MMU port returns a byte with NUMSEG in the high
\* nibble and the selected bank in the low nibble, and changes no state.
C19_ReadPacking ==
    [][ (ev' = "mmu_in") =>
           /\ io_ret' \div 16 = NUMSEG
           /\ io_ret' % 16 = selbnk
           /\ UNCHANGED <<selbnk, curbnk, fp_value, io_data>>
           /\ UNCHANGED <<phase, hwvars, cpuvars, diskvars>>
      ]_vars

\* C20: every port 0..255 has an input and an output handler bound, so
\* that every IN and every OUT calls a handler.
C20_AllPortsBound ==
    /\ \A p \in 0..255 : port_in[p] # NULL /\ port_out[p] # NULL
    /\ ev \notin {"no_handler_in", "no_handler_out"}

(***************************************************************************)
(* Properties of the asynchronous contexts and of the ICE command          *)
(***************************************************************************)
\* the execution context of each step
Context(e) ==
    IF e \in {"uart_event_task_error", "uart_event_task_stop"}
    THEN "uart_event_task"
    ELSE IF e = "timeout" THEN "timer" ELSE "main"

\* C21 as stated: the UART task is the only context other than the main
\* one that changes cpu_state or cpu_error.
C21_OnlyUartWrites ==
    [][ ( /\ (cpu_state' # cpu_state \/ cpu_error' # cpu_error)
          /\ Context(ev') # "main" ) =>
           Context(ev') = "uart_event_task"
      ]_vars

\* C21 amended: the contexts other than the main one that change
\* cpu_state or cpu_error are the UART task and the alarm callback of the
\* clock measurement command.  The UART task writes cpu_error = USERINT
\* and then, in a second step, cpu_state = stopped, and nothing else; the
\* alarm callback writes cpu_state = stopped and nothing else.
C21_AsyncWrites ==
    [][ /\ (ev' = "uart_event_task_error") =>
              /\ cpu_error' = USERINT
              /\ UNCHANGED <<cpu_state, PC, cpu>>
              /\ UNCHANGED <<phase, hwvars, diskvars, iovars>>
        /\ (ev' = "uart_event_task_stop") =>
              /\ uart_pc = "stop"
              /\ cpu_state' = ST_STOPPED
              /\ UNCHANGED <<cpu_error, PC, cpu>>
              /\ UNCHANGED <<phase, hwvars, diskvars, iovars>>
        /\ (ev' = "timeout") =>
              /\ cpu_state' = ST_STOPPED
              /\ UNCHANGED <<cpu_error, PC, cpu>>
              /\ UNCHANGED <<phase, hwvars, diskvars, iovars>>
        /\ ( /\ (cpu_state' # cpu_state \/ cpu_error' # cpu_error)
             /\ Context(ev') # "main" ) =>
              Context(ev') \in {"uart_event_task", "timer"}
      ]_vars

\* C21 witness: the alarm callback has stopped the running CPU with no
\* error set
C21_Witness ==
    /\ ev = "timeout"
    /\ cpu_state = ST_STOPPED
    /\ cpu_error = NONE
    /\ ice.fired

\* C25: when the clock measurement command returns, PC and memory bytes
\* 0..2 are what they were before the command and the timer has been
\* stopped and deleted, whether the timer or a user break ended the run.
C25_ClockFrame ==
    (ev = "ice_c_end") =>
        /\ PC = ice.before[1]
        /\ \A k \in 0..2 : dma_read(mem, k) = ice.before[k + 2]
        /\ ice.timer = "deleted"
        /\ ice.pc = "idle"

\* C25 witness: a user break has ended the run before the alarm, with a
\* loaded program at address 0 and PC in the boot ROM before the command
C25_Witness ==
    /\ ev = "ice_c_end"
    /\ ice.brk
    /\ ~ice.fired
    /\ ice.before[1] = BOOT_PC
    /\ ice.before[2] = CodeByte(0)
    /\ ice.before[2] # JP_OPCODE

(***************************************************************************)
(* Properties of the bulk loader                                           *)
(***************************************************************************)
\* the addresses the loader properties look at
LoadAddrs == 0..(CodeLen + 1)

\* the loader copies file byte k to address k for the n bytes it has read
\* and writes no other address
LoadCopies ==
    /\ \A k \in 0..(load_rep'.written - 1) :
           dma_read(mem', k) = FileByte(load_rep'.name, k)
    /\ \A a \in LoadAddrs \cup DOMAIN mem \cup DOMAIN mem' :
           a >= load_rep'.written => dma_read(mem', a) = dma_read(mem, a)

\* C22 as stated: file byte k goes to address k for every k < L and no
\* other address is written, and a read of zero or negative length is
\* reported as an I/O error, not as the end of the load.
C22_ZeroReadIsError ==
    [][ (ev' = "load_file" /\ load_rep'.msg # "File not found") =>
          /\ LoadCopies
          /\ (load_rep'.br > 0) =>
                /\ load_rep'.written = CodeLenOf(load_rep'.name)
                /\ load_rep'.msg = "loaded file"
          /\ (load_rep'.br <= 0) => load_rep'.msg = "fread error"
      ]_vars

\* C22 amended: file byte k goes to address k for every byte read, in
\* records of SEC_SZ, and no other address is written; the load ends at
\* the first record shorter than SEC_SZ, a read of zero bytes included,
\* and is then reported as loaded with all L bytes; only a read of
\* negative length is reported as an error, with the whole records read
\* before it in memory.
C22_Loader ==
    [][ (ev' = "load_file" /\ load_rep'.msg # "File not found") =>
          /\ LoadCopies
          /\ (load_rep'.br >= 0) =>
                /\ load_rep'.written = CodeLenOf(load_rep'.name)
                /\ load_rep'.br = CodeLenOf(load_rep'.name) % SEC_SZ
                /\ load_rep'.msg = "loaded file"
                /\ load_rep'.bytes = CodeLenOf(load_rep'.name)
          /\ (load_rep'.br < 0) =>
                /\ load_rep'.msg = "fread error"
                /\ load_rep'.written % SEC_SZ = 0
                /\ load_rep'.written <= CodeLenOf(load_rep'.name)
      ]_vars

\* C22 witness: a file that ends on a record boundary has been loaded over
\* a longer one; the last read returned 0 and the load is reported clean
C22_Witness ==
    /\ ev = "load_file"
    /\ load_rep.name = "FULL"
    /\ load_rep.br = 0
    /\ load_rep.msg = "loaded file"
    /\ load_rep.written = SEC_SZ
    /\ dma_read(mem, SEC_SZ - 1) = FileByte("FULL", SEC_SZ - 1)
    /\ dma_read(mem, SEC_SZ) = CodeByte(SEC_SZ)

(***************************************************************************)
(* Properties of the configuration file                                    *)
(***************************************************************************)
\* C23: the record written when the dialog ends, read back at the next
\* start of the dialog, restores the CPU model, the speed, the front panel
\* byte and the path of each of the 4 drives to the values written; the
\* fields are written and read in the same order with the same widths.
C23_ConfigRoundTrip ==
    [][ (ev' = "app_restart") =>
          /\ cfg_file = CfgWrite(cfg_rec.cpu, cfg_rec.speed,
                                 cfg_rec.fp_value, cfg_rec.disks)
          /\ cpu' = cfg_rec.cpu
          /\ speed' = cfg_rec.speed
          /\ fp_value' = cfg_rec.fp_value
          /\ \A d \in 0..(NUMDISK - 1) : disks'[d] = cfg_rec.disks[d]
          /\ CfgReadWidths = CfgWriteWidths
      ]_vars

\* C23 witness: a restart has restored a record in which no field but the
\* two empty drives has its initial value
C23_Witness ==
    /\ ev = "app_restart"
    /\ cpu = I8080
    /\ speed = 40
    /\ fp_value = 165
    /\ disks[0] = SFN("B")
    /\ disks[3] = SFN("A")
    /\ cfg_rec.fp_value = 165

(***************************************************************************)
(* Properties of the command line reader                                   *)
(***************************************************************************)
\* the buffer bound of a call at any of its steps
CmdlineBound ==
    /\ cl.i \in 0..(cl.len - 1)
    /\ DOMAIN cl.buf \subseteq 0..(cl.len - 1)
    /\ (cl.pc = "read") => (DOMAIN cl.buf \subseteq 0..(cl.len - 2))
    /\ (cl.pc = "done") =>
          /\ cl.i <= cl.len - 1
          /\ cl.buf[cl.i] = NUL
          /\ \A k \in 0..(cl.i - 1) : cl.buf[k] \in Chars \ {BS, DEL, CR}
    /\ (cl.len = 2 /\ cl.i = 1) => cl.pc = "done"

\* C24: in get_cmdline, for every input and every len >= 2, the write
\* index stays in 0..len-1, at most len-1 characters are stored, followed
\* by one NUL inside buf[0..len-1]; a backspace or delete at index 0
\* changes nothing; with len = 2 the call returns right after the first
\* stored character.
C24_CmdlineBound ==
    [][ /\ (ev' \in {"get_cmdline", "get_cmdline_char"}) => CmdlineBound'
        /\ ( /\ ev' = "get_cmdline_char"
             /\ cl'.last \in {BS, DEL}
             /\ cl.i = 0 ) =>
              /\ cl'.i = 0
              /\ cl'.buf = cl.buf
              /\ cl'.pc = "read"
        /\ ( /\ ev' = "get_cmdline_char"
             /\ cl.len = 2
             /\ cl'.i = cl.i + 1 ) => cl'.pc = "done"
      ]_vars

\* C24 witness: a call has returned a full buffer of len 3 after more
\* characters than fit, a backspace among them
C24_Witness ==
    /\ ev = "get_cmdline_char"
    /\ cl.pc = "done"
    /\ cl.len = 3
    /\ cl.i = 2
    /\ cl.n = MaxChars
    /\ cl.buf = (0 :> 98) @@ (1 :> 97) @@ (2 :> NUL)

====
